---- MODULE Spec2Model ----
(***************************************************************************)
(* A model of the OTA image toolkit (tier4/ota-image-libs):                *)
(*   - the ImageIndex lifecycle (finalize / sign / add manifests),         *)
(*   - the per-bundle coordination of PrepareResourceHelper,               *)
(*   - the recursive resource reconstruction (prepare) engine,             *)
(*   - the rootfs deployer and the resources deployer,                     *)
(*   - the x5c certificate chain and the verify-sign command,              *)
(*   - pack_artifact, the download-dir check, verify-resources, the blob   *)
(*     puts of OCIDescriptor and the common-digest query of the file       *)
(*     table.                                                              *)
(* Each part has its own specification over the same variables; the parts  *)
(* that a specification does not exercise stay in their idle state.        *)
(***************************************************************************)
EXTENDS Integers, Sequences, FiniteSets, TLC

VARIABLES
    \* ---- ImageIndex (image_index/schema.py)
    manifests,          \* ImageIndex.manifests: a sequence of descriptors
    created_at,         \* annotations.created_at: <<>> is None, <<t>> is t
    signed_at,          \* annotations.signed_at:  <<>> is None, <<t>> is t
    totals,             \* <<total_blobs_count, total_blobs_size>>
    clock,              \* the last value int(time.time()) returned
    idx_last,           \* the last index operation and whether it raised
    \* ---- PrepareResourceHelper, bundle coordination (resource_table/utils.py)
    b_plock,            \* _bundle_process_lock: 0 is free, else the holder
    b_registry,         \* _bundle_per_locks: bundle resource_id -> record, 0 is absent
    b_rec,              \* the (PerBundleLock, _BundleReadyEventWithRevision) pairs made
    b_pc,               \* where each worker is in _prepare_bundled_resource
    b_tgt,              \* the resource-table row each worker prepares
    b_found,            \* worker local: _bundle_info, the result of the registry get
    b_my,               \* worker local: the record it unpacked
    b_iter,             \* worker local: sleeps done in the waiting loop
    b_rev,              \* worker local: bundle_rev
    b_built,            \* worker history: it took the build branch
    b_tmp,              \* download dir: each worker's tmp file, <<>> is absent
    b_dl,               \* download dir: bundle resource_id -> bundle file, <<>> is absent
    b_out,              \* resource dir: window row -> file, <<>> is absent
    b_downloads,        \* bundle resource_id -> download items fulfilled
    b_faults,           \* faults injected so far
    \* ---- PrepareResourceHelper, one thread consuming prepare plans
    p_phase,            \* idle | run | ran | finished | failed
    p_run,              \* which prepare call of the same digest this is
    p_tgt,              \* the resource-table row whose digest is prepared
    p_stack,            \* the generator frames, innermost last
    p_item,             \* the ResourceDownloadInfo yielded to the caller, <<>> is none
    p_fs,               \* resource dir and download dir: a set of [path, data]
    p_event,            \* bundle resource_id -> ready event, of the registered bundles
    p_nonce,            \* tmp_fname: tmp names made so far
    p_dls,              \* download items fulfilled in run 1 and in run 2
    p_snap,             \* the resource dir when run 1 ended
    \* ---- RootfsDeployer
    d_pc,               \* setup_rootfs: dirs | non_regular | regular | acquire | join | done | failed
    d_umask,            \* the process umask: the permission bits it masks out
    d_idx,              \* the next entry of the iterator being walked
    d_se,               \* self._se: the semaphore's value
    d_last_exc,         \* self._last_exc: <<>> is None, else <<task>>
    d_first,            \* _first_prepared_digest
    d_task,             \* regular entry -> none | queued | locked | returned | raised | done
    d_ftp,              \* regular entry -> the first_to_prepare it was submitted with
    d_hlock,            \* self._hardlink_group_lock: 0 free, else the holding task
    d_hgroup,           \* self._hardlink_group: inode_id -> head path
    d_path,             \* file system: path -> inode number, 0 is absent
    d_ino,              \* file system: the inodes, by number
    d_faults,           \* prepare_* calls that raised so far
    \* ---- ResourcesDeployer
    r_pc,               \* deploy_resources: check | acquire | finalize | join | returned | raised
    r_n,                \* how many digests the file table holds
    r_idx,              \* the next digest of the loop
    r_se,               \* self._concurrent_se: the semaphore's value
    r_last_exc,         \* self._last_exc: <<>> is None, else <<task>>
    r_task,             \* digest -> <<none | queued | running | returned | raised | done, thread>>
    r_fin,              \* finalizer task -> none | queued | waiting | passed
    r_thr,              \* pool thread -> absent | free | busy | barrier
    r_closed,           \* pool thread -> times it closed its artifact reader
    r_failed,           \* the tasks that raised, in the order they raised
    r_idle,             \* the pool's _idle_semaphore: work items run and not yet counted by a submit
    \* ---- X509CertChainBase / X5cX509CertChain (_crypto/x509_utils.py)
    x_pc,               \* idle, start, validated or object: what has been called
    x_data,             \* the list given to X5cX509CertChain.validator
    x_ee,               \* self._ee: <<>> is None, else <<cert>>
    x_interms,          \* self._interms
    x_err,              \* the ValueError the last call raised, "" is none
    \* ---- verify-sign (ota_image_tools/cmds/verify_sign.py)
    v_pc,               \* idle, ready or done: verify_sign_cmd has not run, has run
    v_layout,           \* the image root holds a valid oci-layout and resource dir
    v_index,            \* the bytes of index.json, <<>> when the file is absent
    v_jwt,              \* the text of index.jwt, <<>> when the file is absent
    v_ca,               \* args.ca_dir
    v_result,           \* verified | exit (exit_with_err_msg) | raised
    v_tampered,         \* index.json was changed after index.jwt was composed
    \* ---- pack_artifact (artifact/pack.py)
    k_pc,               \* idle or ready
    k_files,            \* the files of the image directory: [dir, name, data, mode]
    k_dirs,             \* the directories below the image root: [path, mode]
    k_scan,             \* the order in which os.walk lists the top-level directories
    k_out,              \* the outcome of each pack_artifact call so far
    k_chmods,           \* permission changes made to the source tree so far
    \* ---- ResumeOTADownloadHelper (resource_table/utils.py)
    q_pc,               \* idle, scan, join or done: where check_download_dir is
    q_listing,          \* the entries of the download dir when check_download_dir was called
    q_dir,              \* the entries of the download dir now
    q_todo,             \* the entries os.scandir has yet to yield
    q_queued,           \* the checks submitted to the pool that have not run yet
    q_se,               \* self._se: the semaphore's value
    q_count,            \* _count
    \* ---- verify-resources (ota_image_tools/cmds/verify_resources.py)
    w_pc,               \* idle, loop, exiting, join, returned (exit status 0) or exit1
    w_blobs,            \* _blobs_gen: what each path to check holds
    w_idx,              \* how many paths the loop of digest_files has taken
    w_se,               \* self._se: the semaphore's value
    w_should_exit,      \* self._should_exit
    w_last_failed,      \* self._last_failed_digest: <<>> is None, else <<path index>>
    w_task,             \* path index -> none, queued, running or done
    w_verdict,          \* path index -> none, ok, mismatch, error or aborted: what its task found
    \* ---- OCIDescriptor blob puts (common/oci_spec.py)
    o_pc,               \* putter -> start, opened, written, replaced or done
    o_kind,             \* putter -> bytes (add_contents_to_resource_dir) or file (add_file_to_resource_dir)
    o_blob,             \* the file resource_dir/<digest>: <<>> is absent, else <<chunks>>
    o_tmp,              \* putter -> its file resource_dir/tmp_fname(): <<>> is absent, else <<chunks>>
    o_off,              \* putter -> chunks it has written
    o_seen,             \* what a reader of resource_dir/<digest> has read so far
    \* ---- iter_common_regular_entries_by_digest (file_table/db.py)
    c_pc,               \* idle, ready, loop, done or raised
    c_base,             \* the base file table: the digest of each regular path
    c_target,           \* the resources of the target file table: absent, blob or inlined
    c_max,              \* max_num_of_entries_per_digest
    c_left,             \* the rows of the statement the cursor has not delivered yet
    c_seen,             \* the rows delivered so far, in query order
    c_hash,             \* _hash: <<>> is b"", <<d>> is digest d
    c_cur,              \* _cur
    c_out               \* the (digest, paths) pairs yielded so far

idx_vars == <<manifests, created_at, signed_at, totals, clock, idx_last>>

bundle_vars == <<b_plock, b_registry, b_rec, b_pc, b_tgt, b_found, b_my, b_iter,
                 b_rev, b_built, b_tmp, b_dl, b_out, b_downloads, b_faults>>

prep_vars == <<p_phase, p_run, p_tgt, p_stack, p_item, p_fs, p_event, p_nonce,
               p_dls, p_snap>>

deploy_vars == <<d_pc, d_umask, d_idx, d_se, d_last_exc, d_first, d_task, d_ftp,
                 d_hlock, d_hgroup, d_path, d_ino, d_faults>>

res_vars == <<r_pc, r_n, r_idx, r_se, r_last_exc, r_task, r_fin, r_thr, r_closed,
              r_failed, r_idle>>

chain_vars == <<x_pc, x_data, x_ee, x_interms, x_err>>

ver_vars == <<v_pc, v_layout, v_index, v_jwt, v_ca, v_result, v_tampered>>

pack_vars == <<k_pc, k_files, k_dirs, k_scan, k_out, k_chmods>>

dl_vars == <<q_pc, q_listing, q_dir, q_todo, q_queued, q_se, q_count>>

vr_vars == <<w_pc, w_blobs, w_idx, w_se, w_should_exit, w_last_failed, w_task, w_verdict>>

put_vars == <<o_pc, o_kind, o_blob, o_tmp, o_off, o_seen>>

com_vars == <<c_pc, c_base, c_target, c_max, c_left, c_seen, c_hash, c_cur, c_out>>

vars == <<idx_vars, bundle_vars, prep_vars, deploy_vars, res_vars, chain_vars, ver_vars, pack_vars, dl_vars, vr_vars, put_vars, com_vars>>

non_idx_vars == <<bundle_vars, prep_vars, deploy_vars, res_vars, chain_vars, ver_vars, pack_vars, dl_vars, vr_vars, put_vars, com_vars>>
non_bundle_vars == <<idx_vars, prep_vars, deploy_vars, res_vars, chain_vars, ver_vars, pack_vars, dl_vars, vr_vars, put_vars, com_vars>>
non_prep_vars == <<idx_vars, bundle_vars, deploy_vars, res_vars, chain_vars, ver_vars, pack_vars, dl_vars, vr_vars, put_vars, com_vars>>
non_deploy_vars == <<idx_vars, bundle_vars, prep_vars, res_vars, chain_vars, ver_vars, pack_vars, dl_vars, vr_vars, put_vars, com_vars>>
non_res_vars == <<idx_vars, bundle_vars, prep_vars, deploy_vars, chain_vars, ver_vars, pack_vars, dl_vars, vr_vars, put_vars, com_vars>>
non_chain_vars == <<idx_vars, bundle_vars, prep_vars, deploy_vars, res_vars, ver_vars, pack_vars, dl_vars, vr_vars, put_vars, com_vars>>
non_ver_vars == <<idx_vars, bundle_vars, prep_vars, deploy_vars, res_vars, chain_vars, pack_vars, dl_vars, vr_vars, put_vars, com_vars>>
non_pack_vars == <<idx_vars, bundle_vars, prep_vars, deploy_vars, res_vars, chain_vars, ver_vars, dl_vars, vr_vars, put_vars, com_vars>>
non_dl_vars == <<idx_vars, bundle_vars, prep_vars, deploy_vars, res_vars, chain_vars, ver_vars, pack_vars, vr_vars, put_vars, com_vars>>
non_vr_vars == <<idx_vars, bundle_vars, prep_vars, deploy_vars, res_vars, chain_vars, ver_vars, pack_vars, dl_vars, put_vars, com_vars>>
non_put_vars == <<idx_vars, bundle_vars, prep_vars, deploy_vars, res_vars, chain_vars, ver_vars, pack_vars, dl_vars, vr_vars, com_vars>>
non_com_vars == <<idx_vars, bundle_vars, prep_vars, deploy_vars, res_vars, chain_vars, ver_vars, pack_vars, dl_vars, vr_vars, put_vars>>

----------------------------------------------------------------------------
(* ImageIndex                                                              *)

\* Bounds of the index model.
MaxManifests == 2
MaxClock == 2
MaxBlobs == 1

EcuIds == {"ecu_a", "ecu_b"}
ReleaseKeys == {"dev", "prd"}
BlobTags == {"blob_x", "blob_y"}

\* ImageManifest.Descriptor: its annotations carry the image identifier.
ImageDescriptors ==
    [kind : {"image"}, ecu_id : EcuIds, release_key : ReleaseKeys, tag : BlobTags]
OTAClientDescriptors ==
    [kind : {"otaclient"}, ecu_id : {"-"}, release_key : {"-"}, tag : {"blob_x"}]
ResourceTableDescriptors ==
    [kind : {"rst", "rst_zstd"}, ecu_id : {"-"}, release_key : {"-"}, tag : {"blob_x"}]

image_identifier(d) == <<d.ecu_id, d.release_key>>

IsImageDescriptor(d) == d.kind = "image"
IsResourceTableDescriptor(d) == d.kind \in {"rst", "rst_zstd"}

image_finalized == created_at # <<>>

image_signed == signed_at # <<>>

image_can_be_signed_always == TRUE

image_can_be_signed == image_finalized

\* position of the first image manifest with the identifier, 0 for None
find_image_never(ms, id) == 0

find_image(ms, id) ==
    LET hits == {i \in 1..Len(ms) :
                    IsImageDescriptor(ms[i]) /\ image_identifier(ms[i]) = id}
    IN IF hits = {} THEN 0 ELSE CHOOSE i \in hits : \A j \in hits : i <= j

RemoveAt(s, i) == SubSeq(s, 1, i - 1) \o SubSeq(s, i + 1, Len(s))

\* int(time.time()): the wall clock never runs backwards in the model
Now(t) == t \in clock..MaxClock

finalize_image(total_blobs_count, total_blobs_size) ==
    IF image_finalized
    THEN /\ idx_last' = [op |-> "finalize_image", raised |-> TRUE]
         /\ UNCHANGED <<manifests, created_at, signed_at, totals, clock, non_idx_vars>>
    ELSE \E t \in 1..MaxClock :
            /\ Now(t)
            /\ created_at' = <<t>>
            /\ clock' = t
            /\ totals' = <<total_blobs_count, total_blobs_size>>
            /\ idx_last' = [op |-> "finalize_image", raised |-> FALSE]
            /\ UNCHANGED <<manifests, signed_at, non_idx_vars>>

finalize_signing_image(force_sign) ==
    IF ~image_can_be_signed
    THEN /\ idx_last' = [op |-> "finalize_signing_image", raised |-> TRUE]
         /\ UNCHANGED <<manifests, created_at, signed_at, totals, clock, non_idx_vars>>
    ELSE IF image_signed /\ ~force_sign
    THEN /\ idx_last' = [op |-> "finalize_signing_image", raised |-> TRUE]
         /\ UNCHANGED <<manifests, created_at, signed_at, totals, clock, non_idx_vars>>
    ELSE \E t \in 1..MaxClock :
            /\ Now(t)
            /\ signed_at' = <<t>>
            /\ clock' = t
            /\ idx_last' = [op |-> "finalize_signing_image", raised |-> FALSE]
            /\ UNCHANGED <<manifests, created_at, totals, non_idx_vars>>

add_image(manifest_descriptor) ==
    IF image_finalized \/ image_signed
    THEN /\ idx_last' = [op |-> "add_image", raised |-> TRUE]
         /\ UNCHANGED <<manifests, created_at, signed_at, totals, clock, non_idx_vars>>
    ELSE IF find_image(manifests, image_identifier(manifest_descriptor)) # 0
    THEN /\ idx_last' = [op |-> "add_image", raised |-> TRUE]
         /\ UNCHANGED <<manifests, created_at, signed_at, totals, clock, non_idx_vars>>
    ELSE /\ Len(manifests) < MaxManifests
         /\ manifests' = Append(manifests, manifest_descriptor)
         /\ idx_last' = [op |-> "add_image", raised |-> FALSE]
         /\ UNCHANGED <<created_at, signed_at, totals, clock, non_idx_vars>>

add_otaclient_package(manifest_descriptor) ==
    /\ Len(manifests) < MaxManifests
    /\ manifests' = Append(manifests, manifest_descriptor)
    /\ idx_last' = [op |-> "add_otaclient_package", raised |-> FALSE]
    /\ UNCHANGED <<created_at, signed_at, totals, clock, non_idx_vars>>

\* resource_table_descriptor: <<>> is None, <<d>> is the descriptor d
update_resource_table(resource_table_descriptor) ==
    LET olds == {i \in 1..Len(manifests) : IsResourceTableDescriptor(manifests[i])}
        idx == IF olds = {} THEN 0 ELSE CHOOSE i \in olds : \A j \in olds : i <= j
        popped == IF idx > 0 THEN RemoveAt(manifests, idx) ELSE manifests
    IN /\ Len(popped \o resource_table_descriptor) <= MaxManifests
       /\ manifests' = popped \o resource_table_descriptor
       /\ idx_last' = [op |-> "update_resource_table", raised |-> FALSE]
       /\ UNCHANGED <<created_at, signed_at, totals, clock, non_idx_vars>>

IndexIdle ==
    /\ manifests = <<>>
    /\ created_at = <<>>
    /\ signed_at = <<>>
    /\ totals = <<0, 0>>
    /\ clock = 1
    /\ idx_last = [op |-> "init", raised |-> FALSE]

FinalizeImage ==
    \E c \in 0..MaxBlobs, s \in 0..MaxBlobs : finalize_image(c, s)

FinalizeSigningImage ==
    \E force_sign \in BOOLEAN : finalize_signing_image(force_sign)

AddImage ==
    \E d \in ImageDescriptors : add_image(d)

AddOTAClientPackage ==
    \E d \in OTAClientDescriptors : add_otaclient_package(d)

UpdateResourceTable ==
    \E r \in {<<>>} \cup {<<d>> : d \in ResourceTableDescriptors} :
        update_resource_table(r)

IndexNext ==
    \/ FinalizeImage
    \/ FinalizeSigningImage
    \/ AddImage
    \/ AddOTAClientPackage
    \/ UpdateResourceTable


(* ---- claims about the image index ---- *)

\* C6 (as stated): once the index is finalized, every operation other than
\* signing is refused and leaves the manifests list and the annotations
\* (apart from signed_at) unchanged.
C6_FinalizedIndexIsImmutable ==
    [][image_finalized =>
          /\ manifests' = manifests
          /\ created_at' = created_at
          /\ totals' = totals
          /\ (idx_last'.op # "finalize_signing_image" => idx_last'.raised)]_idx_vars

\* C7: signed_at is set only if created_at is set, and a signing call on an
\* index that is not finalized raises, with or without force_sign.
C7_SignedOnlyIfFinalized ==
    /\ image_signed => image_finalized
    /\ (idx_last.op = "finalize_signing_image" /\ ~image_finalized) => idx_last.raised

\* a signing call was refused on an index that is not finalized
C7_Witness ==
    /\ idx_last.op = "finalize_signing_image"
    /\ idx_last.raised
    /\ ~image_finalized
    /\ ~image_signed

\* C8: each (ecu_id, release_key) pair is carried by at most one image
\* manifest descriptor of the manifests list.
C8_ImageIdentifierUnique ==
    \A i, j \in 1..Len(manifests) :
        (/\ i # j
         /\ IsImageDescriptor(manifests[i])
         /\ IsImageDescriptor(manifests[j]))
        => image_identifier(manifests[i]) # image_identifier(manifests[j])

\* an add_image of an identifier already in the list was refused, with two
\* images in the list
C8_Witness ==
    /\ idx_last.op = "add_image"
    /\ idx_last.raised
    /\ ~image_finalized
    /\ Cardinality({i \in 1..Len(manifests) : IsImageDescriptor(manifests[i])}) = 2

----------------------------------------------------------------------------
(* PrepareResourceHelper: N workers preparing windows of bundles           *)

\* Bounds of the bundle model.
NumWorkers == 2
MaxFaults == 2

MAX_ITERS_FOR_WAITING_BUNDLE == 6

Workers == 1..NumWorkers

\* sha256 of a byte string: an injective tag of the content
Sha256(content) == <<"sha256", content>>

\* The resource table of this part: two bundle leaves and windows of them.
BundleIds == {"B1", "B2"}
WindowIds == {"W1", "W2", "W3"}
BundleContent(b) == IF b = "B1" THEN <<1, 2, 3>> ELSE <<4, 5>>
WindowFilter(t) ==
    CASE t = "W1" -> [bundle_resource_id |-> "B1", offset |-> 0, len |-> 2]
      [] t = "W2" -> [bundle_resource_id |-> "B1", offset |-> 1, len |-> 2]
      [] OTHER    -> [bundle_resource_id |-> "B2", offset |-> 0, len |-> 1]

\* src.seek(offset); src.read(len)
ReadWindow(content, offset, len) ==
    SubSeq(content, offset + 1,
           IF offset + len <= Len(content) THEN offset + len ELSE Len(content))

WindowContent(t) ==
    ReadWindow(BundleContent(WindowFilter(t).bundle_resource_id),
               WindowFilter(t).offset, WindowFilter(t).len)

\* the rows as orm_select_entry returns them
BundleEntry(b) == [resource_id |-> b, digest |-> Sha256(BundleContent(b))]
WindowEntry(t) == [resource_id |-> t, digest |-> Sha256(WindowContent(t)),
                   filter_applied |-> WindowFilter(t)]

BundleOf(w) == WindowFilter(b_tgt[w]).bundle_resource_id

\* (_bundle_entry, PerBundleLock(), _BundleReadyEventWithRevision())
NewRecord(b) == [entry |-> b, lock |-> 0, flag |-> FALSE, rev |-> 0]

BundleIdle ==
    /\ b_plock = 0
    /\ b_registry = [b \in BundleIds |-> 0]
    /\ b_rec = <<>>
    /\ b_pc = [w \in Workers |-> "idle"]
    /\ b_tgt = [w \in Workers |-> "W1"]
    /\ b_found = [w \in Workers |-> 0]
    /\ b_my = [w \in Workers |-> 0]
    /\ b_iter = [w \in Workers |-> 0]
    /\ b_rev = [w \in Workers |-> 0]
    /\ b_built = [w \in Workers |-> FALSE]
    /\ b_tmp = [w \in Workers |-> <<>>]
    /\ b_dl = [b \in BundleIds |-> <<>>]
    /\ b_out = [t \in WindowIds |-> <<>>]
    /\ b_downloads = [b \in BundleIds |-> 0]
    /\ b_faults = 0

BundleStart ==
    /\ b_plock = 0
    /\ b_registry = [b \in BundleIds |-> 0]
    /\ b_rec = <<>>
    /\ b_pc = [w \in Workers |-> "start"]
    /\ b_tgt \in [Workers -> WindowIds]
    /\ b_found = [w \in Workers |-> 0]
    /\ b_my = [w \in Workers |-> 0]
    /\ b_iter = [w \in Workers |-> 0]
    /\ b_rev = [w \in Workers |-> 0]
    /\ b_built = [w \in Workers |-> FALSE]
    /\ b_tmp = [w \in Workers |-> <<>>]
    /\ b_dl = [b \in BundleIds |-> <<>>]
    /\ b_out = [t \in WindowIds |-> <<>>]
    /\ b_downloads = [b \in BundleIds |-> 0]
    /\ b_faults = 0

\* _BundleReadyEventWithRevision.is_set
EventIsSet(r) == <<b_rec[r].flag, b_rec[r].rev>>

\* _BundleReadyEventWithRevision.set: the record after it
EventSet(rec) == [rec EXCEPT !.flag = TRUE, !.rev = rec.rev + 1]

\* _BundleReadyEventWithRevision.clear: the record after it
EventClearAny(rec, rev) == [rec EXCEPT !.flag = FALSE]

EventClear(rec, rev) == IF rev # rec.rev THEN rec ELSE [rec EXCEPT !.flag = FALSE]

\* `with self._bundle_process_lock`: a blocking acquire waits for the lock
ProcessLockAcquirableAlways == TRUE

ProcessLockAcquirable == b_plock = 0

\* _bundle_prepare_lock.acquire(blocking=False)
PerBundleLockAcquiredAlways(r) == TRUE

PerBundleLockAcquired(r) == b_rec[r].lock = 0

\* _prepare_one_bundle: the bundle file is there and hashes to the entry's digest
BundleFileReusableNever(b) == FALSE

BundleFileReusable(b) ==
    /\ b_dl[b] # <<>>
    /\ Sha256(b_dl[b][1]) = BundleEntry(b).digest

\* the for loop over range(MAX_ITERS_FOR_WAITING_BUNDLE) is exhausted
LoopExhaustedNever(i) == FALSE

LoopExhausted(i) == i >= MAX_ITERS_FOR_WAITING_BUNDLE

b_locals == <<b_found, b_my, b_iter, b_rev, b_built>>
b_disk == <<b_tmp, b_dl, b_out, b_downloads>>

\* with self._bundle_process_lock: (enter)
RegistryEnter(w) ==
    /\ b_pc[w] = "start"
    /\ ProcessLockAcquirable
    /\ b_plock' = w
    /\ b_pc' = [b_pc EXCEPT ![w] = "reg_get"]
    /\ UNCHANGED <<b_registry, b_rec, b_tgt, b_locals, b_disk, b_faults, non_bundle_vars>>

\* _bundle_info := self._bundle_per_locks.get(bundle_rsid)
RegistryGet(w) ==
    /\ b_pc[w] = "reg_get"
    /\ b_found' = [b_found EXCEPT ![w] = b_registry[BundleOf(w)]]
    /\ b_pc' = [b_pc EXCEPT ![w] = "reg_put"]
    /\ UNCHANGED <<b_plock, b_registry, b_rec, b_tgt, b_my, b_iter, b_rev, b_built,
                   b_disk, b_faults, non_bundle_vars>>

\* the record is created and registered, or the one found is unpacked; the
\* with block is left
RegistryPut(w) ==
    /\ b_pc[w] = "reg_put"
    /\ IF b_found[w] = 0
       THEN /\ b_rec' = Append(b_rec, NewRecord(BundleOf(w)))
            /\ b_registry' = [b_registry EXCEPT ![BundleOf(w)] = Len(b_rec) + 1]
            /\ b_my' = [b_my EXCEPT ![w] = Len(b_rec) + 1]
       ELSE /\ b_my' = [b_my EXCEPT ![w] = b_found[w]]
            /\ UNCHANGED <<b_rec, b_registry>>
    \* _bundle_info is not read again
    /\ b_found' = [b_found EXCEPT ![w] = 0]
    /\ b_plock' = IF b_plock = w THEN 0 ELSE b_plock
    /\ b_pc' = [b_pc EXCEPT ![w] = "check"]
    /\ UNCHANGED <<b_tgt, b_iter, b_rev, b_built, b_disk, b_faults, non_bundle_vars>>

\* loop head: _is_set, bundle_rev = _bundle_ready_event.is_set()
CheckReady(w) ==
    /\ b_pc[w] = "check"
    /\ b_rev' = [b_rev EXCEPT ![w] = EventIsSet(b_my[w])[2]]
    /\ b_pc' = [b_pc EXCEPT ![w] =
                   IF EventIsSet(b_my[w])[1] THEN "extract" ELSE "try_lock"]
    \* on break the loop counter is dead: it is kept only while the loop runs
    /\ b_iter' = [b_iter EXCEPT ![w] = IF EventIsSet(b_my[w])[1] THEN 0 ELSE @]
    /\ UNCHANGED <<b_plock, b_registry, b_rec, b_tgt, b_found, b_my, b_built,
                   b_disk, b_faults, non_bundle_vars>>

\* if _bundle_prepare_lock.acquire(blocking=False)
TryLock(w) ==
    /\ b_pc[w] = "try_lock"
    /\ IF PerBundleLockAcquired(b_my[w])
       THEN /\ b_rec' = [b_rec EXCEPT ![b_my[w]].lock = w]
            /\ b_built' = [b_built EXCEPT ![w] = TRUE]
            /\ b_iter' = [b_iter EXCEPT ![w] = 0]
            /\ b_pc' = [b_pc EXCEPT ![w] = "build"]
       ELSE /\ b_pc' = [b_pc EXCEPT ![w] = "sleep"]
            /\ UNCHANGED <<b_rec, b_built, b_iter>>
    /\ UNCHANGED <<b_plock, b_registry, b_tgt, b_found, b_my, b_rev,
                   b_disk, b_faults, non_bundle_vars>>

\* time.sleep(WAITING_BUNDLE_INTERVAL); the next iteration, or the loop's else
\* clause: raise BundledRecreateFailed("timeout waiting for bundle ...")
Sleep(w) ==
    /\ b_pc[w] = "sleep"
    /\ b_iter' = [b_iter EXCEPT ![w] = @ + 1]
    /\ b_pc' = [b_pc EXCEPT ![w] =
                   IF LoopExhausted(b_iter[w] + 1) THEN "timeout" ELSE "check"]
    /\ UNCHANGED <<b_plock, b_registry, b_rec, b_tgt, b_found, b_my, b_rev, b_built,
                   b_disk, b_faults, non_bundle_vars>>

\* _prepare_one_bundle up to its yield: reuse the bundle file, or emit the
\* download item of the bundle leaf (save_dst is a tmp file)
BuildStart(w) ==
    /\ b_pc[w] = "build"
    /\ b_pc' = [b_pc EXCEPT ![w] =
                   IF BundleFileReusable(BundleOf(w)) THEN "set_ready" ELSE "download"]
    /\ UNCHANGED <<b_plock, b_registry, b_rec, b_tgt, b_locals, b_disk, b_faults,
                   non_bundle_vars>>

\* the caller fulfils the download item: the bundle's bytes are in save_dst
Download(w) ==
    /\ b_pc[w] = "download"
    /\ b_tmp' = [b_tmp EXCEPT ![w] = <<BundleContent(BundleOf(w))>>]
    /\ b_downloads' = [b_downloads EXCEPT ![BundleOf(w)] = @ + 1]
    /\ b_pc' = [b_pc EXCEPT ![w] = "install"]
    /\ UNCHANGED <<b_plock, b_registry, b_rec, b_tgt, b_locals, b_dl, b_out, b_faults,
                   non_bundle_vars>>

\* the caller raises while fulfilling the item: it leaves its for loop, the
\* generator stays suspended at the yield, inside try/finally
DownloadFails(w) ==
    /\ b_pc[w] = "download"
    /\ b_faults < MaxFaults
    /\ b_faults' = b_faults + 1
    /\ b_pc' = [b_pc EXCEPT ![w] = "abandoned"]
    /\ UNCHANGED <<b_plock, b_registry, b_rec, b_tgt, b_locals, b_disk, non_bundle_vars>>

\* the suspended generator is finalized (its last reference is dropped):
\* GeneratorExit runs the finally clause, which releases the lock
GeneratorClosed(w) ==
    /\ b_pc[w] = "abandoned"
    /\ b_rec' = [b_rec EXCEPT ![b_my[w]].lock = 0]
    /\ b_pc' = [b_pc EXCEPT ![w] = "failed_download"]
    /\ UNCHANGED <<b_plock, b_registry, b_tgt, b_locals, b_disk, b_faults,
                   non_bundle_vars>>

\* os.replace(_bundle_save_tmp, _bundle_f)
Install(w) ==
    /\ b_pc[w] = "install"
    /\ b_dl' = [b_dl EXCEPT ![BundleOf(w)] = b_tmp[w]]
    /\ b_tmp' = [b_tmp EXCEPT ![w] = <<>>]
    /\ b_pc' = [b_pc EXCEPT ![w] = "set_ready"]
    /\ UNCHANGED <<b_plock, b_registry, b_rec, b_tgt, b_locals, b_out, b_downloads,
                   b_faults, non_bundle_vars>>

\* the install raises: except Exception -> BundledRecreateFailed, finally
\* releases the lock
InstallFails(w) ==
    /\ b_pc[w] = "install"
    /\ b_faults < MaxFaults
    /\ b_faults' = b_faults + 1
    /\ b_rec' = [b_rec EXCEPT ![b_my[w]].lock = 0]
    /\ b_pc' = [b_pc EXCEPT ![w] = "failed_build"]
    /\ UNCHANGED <<b_plock, b_registry, b_tgt, b_locals, b_disk, non_bundle_vars>>

\* bundle_rev = _bundle_ready_event.set(); break
SetReady(w) ==
    /\ b_pc[w] = "set_ready"
    /\ b_rec' = [b_rec EXCEPT ![b_my[w]] = EventSet(@)]
    /\ b_rev' = [b_rev EXCEPT ![w] = EventSet(b_rec[b_my[w]]).rev]
    /\ b_pc' = [b_pc EXCEPT ![w] = "release"]
    /\ UNCHANGED <<b_plock, b_registry, b_tgt, b_found, b_my, b_iter, b_built,
                   b_disk, b_faults, non_bundle_vars>>

\* finally: _bundle_prepare_lock.release()
Release(w) ==
    /\ b_pc[w] = "release"
    /\ b_rec' = [b_rec EXCEPT ![b_my[w]].lock = 0]
    /\ b_pc' = [b_pc EXCEPT ![w] = "extract"]
    /\ UNCHANGED <<b_plock, b_registry, b_tgt, b_locals, b_disk, b_faults,
                   non_bundle_vars>>

\* open(_bundle_f, "rb"), open(save_dst, "wb"): save_dst is created or truncated
ExtractOpen(w) ==
    /\ b_pc[w] = "extract"
    /\ b_dl[BundleOf(w)] # <<>>
    /\ b_out' = [b_out EXCEPT ![b_tgt[w]] = << <<>> >>]
    /\ b_pc' = [b_pc EXCEPT ![w] = "extract_write"]
    /\ UNCHANGED <<b_plock, b_registry, b_rec, b_tgt, b_locals, b_tmp, b_dl,
                   b_downloads, b_faults, non_bundle_vars>>

\* src.seek(filter_cfg.offset); dst.write(src.read(filter_cfg.len))
ExtractWrite(w) ==
    /\ b_pc[w] = "extract_write"
    /\ b_out' = [b_out EXCEPT ![b_tgt[w]] =
                    <<ReadWindow(b_dl[BundleOf(w)][1], WindowFilter(b_tgt[w]).offset,
                                 WindowFilter(b_tgt[w]).len)>>]
    /\ b_rev' = [b_rev EXCEPT ![w] = 0]
    /\ b_pc' = [b_pc EXCEPT ![w] = "done"]
    /\ UNCHANGED <<b_plock, b_registry, b_rec, b_tgt, b_found, b_my, b_iter, b_built,
                   b_tmp, b_dl, b_downloads, b_faults, non_bundle_vars>>

\* the extraction raises (the bundle file is missing, or an I/O error):
\* _bundle_ready_event.clear(bundle_rev); raise BundledRecreateFailed
ExtractFails(w) ==
    /\ b_pc[w] \in {"extract", "extract_write"}
    /\ \/ b_pc[w] = "extract" /\ b_dl[BundleOf(w)] = <<>> /\ UNCHANGED b_faults
       \/ b_faults < MaxFaults /\ b_faults' = b_faults + 1
    /\ b_rec' = [b_rec EXCEPT ![b_my[w]] = EventClear(@, b_rev[w])]
    /\ b_rev' = [b_rev EXCEPT ![w] = 0]
    \* failed_extract_stale: clear returned at `if rev != self._rev`
    /\ b_pc' = [b_pc EXCEPT ![w] =
                   IF b_rev[w] # b_rec[b_my[w]].rev THEN "failed_extract_stale"
                   ELSE "failed_extract"]
    /\ UNCHANGED <<b_plock, b_registry, b_tgt, b_found, b_my, b_iter, b_built,
                   b_disk, non_bundle_vars>>

BundleNext ==
    \E w \in Workers :
        \/ RegistryEnter(w)
        \/ RegistryGet(w)
        \/ RegistryPut(w)
        \/ CheckReady(w)
        \/ TryLock(w)
        \/ Sleep(w)
        \/ BuildStart(w)
        \/ Download(w)
        \/ DownloadFails(w)
        \/ GeneratorClosed(w)
        \/ Install(w)
        \/ InstallFails(w)
        \/ SetReady(w)
        \/ Release(w)
        \/ ExtractOpen(w)
        \/ ExtractWrite(w)
        \/ ExtractFails(w)


(* ---- claims about the bundle coordination ---- *)

BundleTerminal ==
    {"done", "timeout", "failed_build", "failed_extract", "failed_extract_stale",
     "failed_download", "abandoned"}
BuildRegion == {"build", "download", "install", "set_ready", "release"}
WaitLoop == {"check", "try_lock", "sleep"}

AllOnOneBundle == \A w1, w2 \in Workers : BundleOf(w1) = BundleOf(w2)
AllTerminal == \A w \in Workers : b_pc[w] \in BundleTerminal
TargetPrepared(w) == b_pc[w] = "done" /\ b_out[b_tgt[w]] = <<WindowContent(b_tgt[w])>>

C2_AtMostOneBuilderPerBundle ==
    /\ \A w1, w2 \in Workers :
          (w1 # w2 /\ BundleOf(w1) = BundleOf(w2) /\ b_pc[w1] \in BuildRegion)
          => b_pc[w2] \notin BuildRegion
    /\ \A w1, w2 \in Workers :
          (b_my[w1] # 0 /\ b_my[w2] # 0 /\ BundleOf(w1) = BundleOf(w2))
          => b_my[w1] = b_my[w2]
    /\ \A r1, r2 \in 1..Len(b_rec) : r1 # r2 => b_rec[r1].entry # b_rec[r2].entry
    /\ \A w \in Workers : b_my[w] # 0 => b_rec[b_my[w]].entry = BundleOf(w)

\* one worker is downloading the bundle while another worker of the same
\* bundle found the lock taken
C2_Witness ==
    \E w1, w2 \in Workers :
        /\ w1 # w2
        /\ BundleOf(w1) = BundleOf(w2)
        /\ b_pc[w1] = "download"
        /\ b_pc[w2] = "sleep"
        /\ b_my[w1] = b_my[w2]

\* C3: a worker sleeps at most 6 times in the waiting loop; after the 6th
\* sleep it has left the loop with the timeout error, also when the builder
\* failed or never finishes.
C3_BoundedWait ==
    \A w \in Workers :
        /\ b_iter[w] <= MAX_ITERS_FOR_WAITING_BUNDLE
        /\ b_pc[w] \in WaitLoop => b_iter[w] < MAX_ITERS_FOR_WAITING_BUNDLE
        /\ b_iter[w] = MAX_ITERS_FOR_WAITING_BUNDLE => b_pc[w] = "timeout"
        /\ b_pc[w] = "timeout" =>
              b_iter[w] = MAX_ITERS_FOR_WAITING_BUNDLE /\ ~b_built[w]

\* a waiter has timed out while the builder, whose download failed, still
\* holds the lock
C3_Witness ==
    \E w1, w2 \in Workers :
        /\ b_pc[w1] = "timeout"
        /\ b_pc[w2] = "abandoned"
        /\ b_my[w1] = b_my[w2]


(* ---- the helper used for one resource after another ---- *)

\* every worker prepares the same window
RetryStart == b_tgt = [w \in Workers |-> "W1"]

\* the caller of a worker whose extraction raised BundledRecreateFailed
\* prepares the same resource again (the exception is raised "to trigger a
\* re-downloading of the resources"); the locals of the new call are fresh
CallAgain(w) ==
    /\ b_pc[w] \in {"failed_extract", "failed_extract_stale"}
    /\ UNCHANGED b_tgt
    /\ b_pc' = [b_pc EXCEPT ![w] = "start"]
    /\ b_found' = [b_found EXCEPT ![w] = 0]
    /\ b_my' = [b_my EXCEPT ![w] = 0]
    /\ b_iter' = [b_iter EXCEPT ![w] = 0]
    /\ b_rev' = [b_rev EXCEPT ![w] = 0]
    /\ b_built' = [b_built EXCEPT ![w] = FALSE]
    /\ UNCHANGED <<b_plock, b_registry, b_rec, b_disk, b_faults, non_bundle_vars>>

RetryNext == BundleNext \/ \E w \in Workers : CallAgain(w)

\* worker w leaves the extraction with an exception in this step
ExtractionRaises(w) ==
    /\ b_pc[w] \in {"extract", "extract_write"}
    /\ b_pc'[w] \in {"failed_extract", "failed_extract_stale"}

\* C21: a consumer whose extraction fails clears the ready flag of the
\* bundle exactly when the bundle's revision is still the one it observed;
\* when the revision has advanced (another build has completed since) the
\* flag is left as it is, and the revision is never changed by the failure.
C21_ClearOnlyIfRevisionUnchanged ==
    [][\A w \in Workers :
          ExtractionRaises(w) =>
              /\ b_rec'[b_my[w]].rev = b_rec[b_my[w]].rev
              /\ b_rec'[b_my[w]].flag =
                    IF b_rec[b_my[w]].rev = b_rev[w] THEN FALSE
                    ELSE b_rec[b_my[w]].flag]_vars

\* a consumer that observed an older revision has failed its extraction and
\* the flag, set by a build that completed in between, is still set
C21_Witness ==
    \E w \in Workers :
        /\ b_pc[w] = "failed_extract_stale"
        /\ b_rec[b_my[w]].flag
        /\ b_rec[b_my[w]].rev >= 2

\* the states of a worker whose build of the bundle has failed
BuildFailed == {"abandoned", "failed_download", "failed_build"}

\* C28: once the build of a bundle has failed in a worker (its download item
\* was not fulfilled, or the install of the bundle file raised), that worker
\* no longer holds the per-bundle lock, so a worker still in its waiting
\* loop for the bundle finds the lock free and builds the bundle itself.
C28_FailedBuilderHoldsNoLock ==
    \A w \in Workers :
        b_pc[w] \in BuildFailed =>
            \A r \in 1..Len(b_rec) : b_rec[r].lock # w

\* worker w leaves the waiting loop with the timeout error in this step
GivesUp(w) == b_pc[w] # "timeout" /\ b_pc'[w] = "timeout"

\* C29: a worker raises the timeout error only when the bundle is not ready
\* at the moment it gives up: a bundle that became ready during the wait,
\* the last wait interval included, is used.
C29_TimeoutOnlyIfNotReady ==
    [][\A w \in Workers : GivesUp(w) => ~b_rec[b_my[w]].flag]_vars

-----------------------------------------------------------------------------
(* PrepareResourceHelper: one plan consumed to the end, twice              *)

\* how many prepare calls for the same digest one helper serves
MaxRuns == 2

\* zstd: a frame is a magic number followed by the payload
ZstdMagic == 99

ZstdIsFrame(data) == Len(data) > 0 /\ data[1] = ZstdMagic

\* dctx.copy_stream / the caller's on-the-fly decompression
ZstdDecompress(data) == IF ZstdIsFrame(data) THEN Tail(data) ELSE <<>>

\* The resource table of this part: kind is the filter applied (leaf: none),
\* refs is list_resource_id() of the filter. It holds every filter, and
\* nestings of them: a compressed blob that was sliced (CS), a compressed
\* window of a bundle (CW), a window of a sliced bundle (W2).
RowIds == {"L", "S1", "S2", "SL", "SS", "Z", "CZ", "Z1", "Z2", "ZS", "CS",
           "B", "W", "WZ", "CW", "W2"}

\* a row: digest is the digest column, the sha256 of the bytes the row stands for
Row(kind, content, refs, offset, len) ==
    [kind |-> kind, digest |-> Sha256(content), refs |-> refs,
     offset |-> offset, len |-> len]

RT ==
    [r \in RowIds |->
        CASE r = "L"  -> Row("leaf", <<1, 2>>, <<>>, 0, 0)
          [] r = "S1" -> Row("leaf", <<3>>, <<>>, 0, 0)
          [] r = "S2" -> Row("leaf", <<4, 5>>, <<>>, 0, 0)
          [] r = "SL" -> Row("slice", <<3, 4, 5>>, <<"S1", "S2">>, 0, 0)
          [] r = "SS" -> Row("slice", <<4, 5, 3, 4, 5>>, <<"S2", "S1", "S2">>, 0, 0)
          [] r = "Z"  -> Row("leaf", <<ZstdMagic, 6, 7>>, <<>>, 0, 0)
          [] r = "CZ" -> Row("compress", <<6, 7>>, <<"Z">>, 0, 0)
          [] r = "Z1" -> Row("leaf", <<ZstdMagic, 8>>, <<>>, 0, 0)
          [] r = "Z2" -> Row("leaf", <<9>>, <<>>, 0, 0)
          [] r = "ZS" -> Row("slice", <<ZstdMagic, 8, 9>>, <<"Z1", "Z2">>, 0, 0)
          [] r = "CS" -> Row("compress", <<8, 9>>, <<"ZS">>, 0, 0)
          [] r = "B"  -> Row("leaf", <<1, 2, 3, ZstdMagic, 6, 1>>, <<>>, 0, 0)
          [] r = "W"  -> Row("bundle", <<2, 3>>, <<"B">>, 1, 2)
          [] r = "WZ" -> Row("bundle", <<ZstdMagic, 6, 1>>, <<"B">>, 3, 3)
          [] r = "CW" -> Row("compress", <<6, 1>>, <<"WZ">>, 0, 0)
          [] r = "W2" -> Row("bundle", <<3, 4>>, <<"SL">>, 0, 2)]

RECURSIVE ConcatReversed(_)
ConcatReversed(parts) ==
    IF parts = <<>> THEN <<>> ELSE ConcatReversed(Tail(parts)) \o Head(parts)

\* recreate_sliced_resource: the slices written one after another, in order
RECURSIVE Concat(_)
Concat(parts) ==
    IF parts = <<>> THEN <<>> ELSE Head(parts) \o Concat(Tail(parts))

\* the blob the artifact serves for a digest
Blob(digest) == digest[2]

\* paths: <resource_dir>/<hex>, <download_dir>/<hex>,
\* <download_dir>/<hex>_<resource_id>, <dir>/<tmp_fname(resource_id)>
HexPath(dir, digest) == [dir |-> dir, kind |-> "hex", dig |-> digest[2], rsid |-> "-", n |-> 0]
SlicePath(digest, rsid) ==
    [dir |-> "download", kind |-> "slice", dig |-> digest[2], rsid |-> rsid, n |-> 0]
TmpPath(dir, rsid, n) == [dir |-> dir, kind |-> "tmp", dig |-> <<>>, rsid |-> rsid, n |-> n]
NoPath == [dir |-> "-", kind |-> "-", dig |-> <<>>, rsid |-> "-", n |-> 0]

IsFile(fs, p) == \E e \in fs : e.path = p
ReadBytes(fs, p) == (CHOOSE e \in fs : e.path = p).data
Unlink(fs, p) == {e \in fs : e.path # p}
WriteBytes(fs, p, data) == Unlink(fs, p) \cup {[path |-> p, data |-> data]}
\* os.replace
Replace(fs, src, dst) == WriteBytes(Unlink(fs, src), dst, ReadBytes(fs, src))
\* file_sha256(p).digest() == digest, of an existing file
HashMatches(fs, p, digest) == IsFile(fs, p) /\ Sha256(ReadBytes(fs, p)) = digest

UnlinkNone(fs, paths) == fs

\* for p in paths: p.unlink(missing_ok=True)
UnlinkAll(fs, paths) == {e \in fs : e.path \notin paths}

ResourceDir(fs) == {e \in fs : e.path.dir = "resource"}

\* ---- the generator, as the stack of its suspended frames
Top == p_stack[Len(p_stack)]
Popped == SubSeq(p_stack, 1, Len(p_stack) - 1)
WithTop(f) == [p_stack EXCEPT ![Len(p_stack)] = f]
Frame(entry, dst) ==
    [kind |-> RT[entry].kind, entry |-> entry, dst |-> dst, pc |-> "begin",
     i |-> 1, tmp |-> NoPath]
\* the frame on top runs: nothing is yielded and waiting for the caller
Running(kind, pc) ==
    /\ p_phase = "run"
    /\ p_item = <<>>
    /\ p_stack # <<>>
    /\ Top.kind = kind
    /\ Top.pc = pc
DownloadInfo(digest, save_dst, alg) ==
    [digest |-> digest, save_dst |-> save_dst, compression_alg |-> alg]
NewEvent == [registered |-> FALSE, flag |-> FALSE, rev |-> 0]

PrepIdle ==
    /\ p_phase = "idle"
    /\ p_run = 0
    /\ p_tgt = "L"
    /\ p_stack = <<>>
    /\ p_item = <<>>
    /\ p_fs = {}
    /\ p_event = [r \in RowIds |-> NewEvent]
    /\ p_nonce = 0
    /\ p_dls = [k \in 1..MaxRuns |-> 0]
    /\ p_snap = {}

\* what an earlier, interrupted session may have left in the download dir:
\* a slice, a bundle file, a rebuilt compressed blob, each whole or damaged
Leftovers ==
    {[path |-> SlicePath(RT["S1"].digest, "SL"), data |-> d] : d \in {<<3>>, <<0>>}}
    \cup {[path |-> HexPath("download", RT["B"].digest), data |-> d] :
             d \in {<<1, 2, 3, ZstdMagic, 6, 1>>, <<1, 2>>}}
    \cup {[path |-> HexPath("download", RT["ZS"].digest), data |-> d] :
             d \in {<<ZstdMagic, 8, 9>>, <<ZstdMagic, 8>>}}

PrepStart ==
    /\ p_phase = "start"
    /\ p_run = 0
    /\ p_tgt \in RowIds
    /\ p_stack = <<>>
    /\ p_item = <<>>
    /\ p_fs \in {fs \in SUBSET Leftovers :
                    \A e1, e2 \in fs : e1.path = e2.path => e1 = e2}
    /\ p_event = [r \in RowIds |-> NewEvent]
    /\ p_nonce = 0
    /\ p_dls = [k \in 1..MaxRuns |-> 0]
    /\ p_snap = {}

\* prepare_resource_at_thread(digest): the plan for the row with that digest
PrepareResourceAtThread ==
    /\ p_phase \in {"start", "ran"}
    /\ p_run < MaxRuns
    /\ p_run' = p_run + 1
    /\ p_phase' = "run"
    /\ p_stack' = <<Frame(p_tgt, HexPath("resource", RT[p_tgt].digest))>>
    /\ UNCHANGED <<p_tgt, p_item, p_fs, p_event, p_nonce, p_dls, p_snap, non_prep_vars>>

\* the caller's loop over the plan ends: the generator is exhausted
PlanConsumed ==
    /\ p_phase = "run"
    /\ p_item = <<>>
    /\ p_stack = <<>>
    /\ p_phase' = IF p_run = MaxRuns THEN "finished" ELSE "ran"
    /\ p_snap' = IF p_run = 1 THEN ResourceDir(p_fs) ELSE p_snap
    /\ UNCHANGED <<p_run, p_tgt, p_stack, p_item, p_fs, p_event, p_nonce, p_dls,
                   non_prep_vars>>

\* the caller fulfils the yielded item with the correct bytes, decompressing
\* on the fly when the item names a compression
FulfilDownload ==
    /\ p_phase = "run"
    /\ p_item # <<>>
    /\ LET item == p_item[1]
           bytes == IF item.compression_alg = "zstd"
                    THEN ZstdDecompress(Blob(item.digest))
                    ELSE Blob(item.digest)
       IN  p_fs' = WriteBytes(p_fs, item.save_dst, bytes)
    /\ p_item' = <<>>
    /\ p_dls' = [p_dls EXCEPT ![p_run] = @ + 1]
    /\ UNCHANGED <<p_phase, p_run, p_tgt, p_stack, p_event, p_nonce, p_snap,
                   non_prep_vars>>

\* _prepare_resource, filter_applied is None: yield the leaf
LeafYield ==
    /\ Running("leaf", "begin")
    /\ p_item' = <<DownloadInfo(RT[Top.entry].digest, Top.dst, "none")>>
    /\ p_stack' = WithTop([Top EXCEPT !.pc = "resumed"])
    /\ UNCHANGED <<p_phase, p_run, p_tgt, p_fs, p_event, p_nonce, p_dls, p_snap,
                   non_prep_vars>>

LeafReturn ==
    /\ Running("leaf", "resumed")
    /\ p_stack' = Popped
    /\ UNCHANGED <<p_phase, p_run, p_tgt, p_item, p_fs, p_event, p_nonce, p_dls,
                   p_snap, non_prep_vars>>

\* ---- _prepare_bundled_resource, with no other thread on the bundle
BundleFile(b) == HexPath("download", RT[b].digest)

\* the bundle record is looked up, or created, under _bundle_process_lock
BundledRegister ==
    /\ Running("bundle", "begin")
    /\ LET b == RT[Top.entry].refs[1]
       IN  p_event' = [p_event EXCEPT ![b].registered = TRUE]
    /\ p_stack' = WithTop([Top EXCEPT !.pc = "check"])
    /\ UNCHANGED <<p_phase, p_run, p_tgt, p_item, p_fs, p_nonce, p_dls, p_snap,
                   non_prep_vars>>

\* the first loop iteration: ready -> extract, else the free lock is taken
BundledCheck ==
    /\ Running("bundle", "check")
    /\ LET b == RT[Top.entry].refs[1]
       IN  p_stack' = WithTop([Top EXCEPT !.pc =
                IF p_event[b].flag THEN "extract" ELSE "one_bundle"])
    /\ UNCHANGED <<p_phase, p_run, p_tgt, p_item, p_fs, p_event, p_nonce, p_dls,
                   p_snap, non_prep_vars>>

\* _prepare_one_bundle: reuse the bundle file, or prepare it to a tmp
OneBundle ==
    /\ Running("bundle", "one_bundle")
    /\ LET b == RT[Top.entry].refs[1]
           tmp == TmpPath("download", b, p_nonce)
       IN  IF HashMatches(p_fs, BundleFile(b), RT[b].digest)
           THEN /\ p_stack' = WithTop([Top EXCEPT !.pc = "set"])
                /\ UNCHANGED p_nonce
           ELSE /\ p_stack' = Append(WithTop([Top EXCEPT !.pc = "install", !.tmp = tmp]),
                                     Frame(b, tmp))
                /\ p_nonce' = p_nonce + 1
    /\ UNCHANGED <<p_phase, p_run, p_tgt, p_item, p_fs, p_event, p_dls, p_snap,
                   non_prep_vars>>

BundleInstall ==
    /\ Running("bundle", "install")
    /\ IsFile(p_fs, Top.tmp)
    /\ p_fs' = Replace(p_fs, Top.tmp, BundleFile(RT[Top.entry].refs[1]))
    /\ p_stack' = WithTop([Top EXCEPT !.pc = "set", !.tmp = NoPath])
    /\ UNCHANGED <<p_phase, p_run, p_tgt, p_item, p_event, p_nonce, p_dls, p_snap,
                   non_prep_vars>>

\* _bundle_ready_event.set(), then the per-bundle lock is released
BundleSetReady ==
    /\ Running("bundle", "set")
    /\ LET b == RT[Top.entry].refs[1]
       IN  p_event' = [p_event EXCEPT ![b].flag = TRUE, ![b].rev = @ + 1]
    /\ p_stack' = WithTop([Top EXCEPT !.pc = "extract"])
    /\ UNCHANGED <<p_phase, p_run, p_tgt, p_item, p_fs, p_nonce, p_dls, p_snap,
                   non_prep_vars>>

\* open(save_dst, "wb"): the destination is created or truncated in place
WindowOpen ==
    /\ Running("bundle", "extract")
    /\ IsFile(p_fs, BundleFile(RT[Top.entry].refs[1]))
    /\ p_fs' = WriteBytes(p_fs, Top.dst, <<>>)
    /\ p_stack' = WithTop([Top EXCEPT !.pc = "extract_write"])
    /\ UNCHANGED <<p_phase, p_run, p_tgt, p_item, p_event, p_nonce, p_dls, p_snap,
                   non_prep_vars>>

\* src.seek(offset); dst.write(src.read(len))
WindowWrite ==
    /\ Running("bundle", "extract_write")
    /\ LET e == RT[Top.entry]
       IN  p_fs' = WriteBytes(p_fs, Top.dst,
                     ReadWindow(ReadBytes(p_fs, BundleFile(e.refs[1])), e.offset, e.len))
    /\ p_stack' = Popped
    /\ UNCHANGED <<p_phase, p_run, p_tgt, p_item, p_event, p_nonce, p_dls, p_snap,
                   non_prep_vars>>

\* ---- _prepare_compressed_resources
CompressedFile(c) == HexPath("download", RT[c].digest)

CompressedBegin ==
    /\ Running("compress", "begin")
    /\ LET c == RT[Top.entry].refs[1]
           tmp == TmpPath("download", c, p_nonce)
       IN  IF RT[c].kind = "leaf"
           THEN /\ p_item' = <<DownloadInfo(RT[c].digest, Top.dst, "zstd")>>
                /\ p_stack' = WithTop([Top EXCEPT !.pc = "resumed"])
                /\ UNCHANGED p_nonce
           ELSE IF ~HashMatches(p_fs, CompressedFile(c), RT[c].digest)
           THEN /\ p_stack' = Append(WithTop([Top EXCEPT !.pc = "install", !.tmp = tmp]),
                                     Frame(c, tmp))
                /\ p_nonce' = p_nonce + 1
                /\ UNCHANGED p_item
           ELSE /\ p_stack' = WithTop([Top EXCEPT !.pc = "decompress"])
                /\ UNCHANGED <<p_item, p_nonce>>
    /\ UNCHANGED <<p_phase, p_run, p_tgt, p_fs, p_event, p_dls, p_snap, non_prep_vars>>

CompressedReturn ==
    /\ Running("compress", "resumed")
    /\ p_stack' = Popped
    /\ UNCHANGED <<p_phase, p_run, p_tgt, p_item, p_fs, p_event, p_nonce, p_dls,
                   p_snap, non_prep_vars>>

CompressedInstall ==
    /\ Running("compress", "install")
    /\ IsFile(p_fs, Top.tmp)
    /\ p_fs' = Replace(p_fs, Top.tmp, CompressedFile(RT[Top.entry].refs[1]))
    /\ p_stack' = WithTop([Top EXCEPT !.pc = "decompress", !.tmp = NoPath])
    /\ UNCHANGED <<p_phase, p_run, p_tgt, p_item, p_event, p_nonce, p_dls, p_snap,
                   non_prep_vars>>

\* recreate_zstd_compressed_resource: decompress into a tmp next to save_dst
DecompressToTmp ==
    /\ Running("compress", "decompress")
    /\ LET c == RT[Top.entry].refs[1]
           tmp == TmpPath(Top.dst.dir, Top.entry, p_nonce)
       IN  /\ ZstdIsFrame(ReadBytes(p_fs, CompressedFile(c)))
           /\ p_fs' = WriteBytes(p_fs, tmp, ZstdDecompress(ReadBytes(p_fs, CompressedFile(c))))
           /\ p_stack' = WithTop([Top EXCEPT !.pc = "replace", !.tmp = tmp])
    /\ p_nonce' = p_nonce + 1
    /\ UNCHANGED <<p_phase, p_run, p_tgt, p_item, p_event, p_dls, p_snap, non_prep_vars>>

\* os.replace(tmp_save_dst, save_dst); finally: compressed_save_dst.unlink()
DecompressReplace ==
    /\ Running("compress", "replace")
    /\ p_fs' = Unlink(Replace(p_fs, Top.tmp, Top.dst),
                      CompressedFile(RT[Top.entry].refs[1]))
    /\ p_stack' = Popped
    /\ UNCHANGED <<p_phase, p_run, p_tgt, p_item, p_event, p_nonce, p_dls, p_snap,
                   non_prep_vars>>

\* ---- _prepare_sliced_resources
SliceFile(entry, i) == SlicePath(RT[RT[entry].refs[i]].digest, entry)

\* _prepare_one_slice for the next slice: reuse it, or yield its download
SliceNext ==
    /\ Running("slice", "begin")
    /\ Top.i <= Len(RT[Top.entry].refs)
    /\ LET s == RT[Top.entry].refs[Top.i]
           tmp == TmpPath("download", s, p_nonce)
       IN  IF HashMatches(p_fs, SliceFile(Top.entry, Top.i), RT[s].digest)
           THEN /\ p_stack' = WithTop([Top EXCEPT !.i = @ + 1])
                /\ UNCHANGED <<p_item, p_nonce>>
           ELSE /\ p_item' = <<DownloadInfo(RT[s].digest, tmp, "none")>>
                /\ p_stack' = WithTop([Top EXCEPT !.pc = "slice_resumed", !.tmp = tmp])
                /\ p_nonce' = p_nonce + 1
    /\ UNCHANGED <<p_phase, p_run, p_tgt, p_fs, p_event, p_dls, p_snap, non_prep_vars>>

SliceInstall ==
    /\ Running("slice", "slice_resumed")
    /\ IsFile(p_fs, Top.tmp)
    /\ p_fs' = Replace(p_fs, Top.tmp, SliceFile(Top.entry, Top.i))
    /\ p_stack' = WithTop([Top EXCEPT !.pc = "begin", !.i = @ + 1, !.tmp = NoPath])
    /\ UNCHANGED <<p_phase, p_run, p_tgt, p_item, p_event, p_nonce, p_dls, p_snap,
                   non_prep_vars>>

\* recreate_sliced_resource: the slices are written to a tmp next to save_dst
SlicesToTmp ==
    /\ Running("slice", "begin")
    /\ Top.i > Len(RT[Top.entry].refs)
    /\ LET n == Len(RT[Top.entry].refs)
           tmp == TmpPath(Top.dst.dir, Top.entry, p_nonce)
       IN  /\ p_fs' = WriteBytes(p_fs, tmp,
                        Concat([i \in 1..n |-> ReadBytes(p_fs, SliceFile(Top.entry, i))]))
           /\ p_stack' = WithTop([Top EXCEPT !.pc = "replace", !.tmp = tmp])
    /\ p_nonce' = p_nonce + 1
    /\ UNCHANGED <<p_phase, p_run, p_tgt, p_item, p_event, p_dls, p_snap, non_prep_vars>>

\* os.replace(tmp_save_dst, save_dst); finally: every slice is unlinked
SlicesReplace ==
    /\ Running("slice", "replace")
    /\ LET moved == Replace(p_fs, Top.tmp, Top.dst)
           slices == {SliceFile(Top.entry, i) : i \in 1..Len(RT[Top.entry].refs)}
       IN  p_fs' = UnlinkAll(moved, slices)
    /\ p_stack' = Popped
    /\ UNCHANGED <<p_phase, p_run, p_tgt, p_item, p_event, p_nonce, p_dls, p_snap,
                   non_prep_vars>>

PrepNext ==
    \/ PrepareResourceAtThread
    \/ PlanConsumed
    \/ FulfilDownload
    \/ LeafYield
    \/ LeafReturn
    \/ BundledRegister
    \/ BundledCheck
    \/ OneBundle
    \/ BundleInstall
    \/ BundleSetReady
    \/ WindowOpen
    \/ WindowWrite
    \/ CompressedBegin
    \/ CompressedReturn
    \/ CompressedInstall
    \/ DecompressToTmp
    \/ DecompressReplace
    \/ SliceNext
    \/ SliceInstall
    \/ SlicesToTmp
    \/ SlicesReplace

\* ---- claims on the reconstruction engine
TargetPath == HexPath("resource", RT[p_tgt].digest)

\* C4: when the plan of prepare(r.digest) has been consumed to the end with
\* every download item fulfilled with the correct bytes, resource_dir/<hex of
\* r.digest> exists and its sha256 is r.digest, for every row r of the table.
C4_ReconstructionCorrect ==
    p_phase \in {"ran", "finished"} => HashMatches(p_fs, TargetPath, RT[p_tgt].digest)

\* a compressed blob that was sliced: a plan of two leaves, then the file is there
C4_Witness ==
    /\ p_phase = "ran"
    /\ p_tgt = "CS"
    /\ p_dls[1] = 2
    /\ HashMatches(p_fs, TargetPath, RT["CS"].digest)

\* the plan of row r requests a download when r was prepared before by the
\* same helper: always, but for a window of a bundle the helper holds ready
RECURSIVE DownloadsAgain(_)
DownloadsAgain(r) ==
    CASE RT[r].kind = "leaf" -> TRUE
      [] RT[r].kind = "slice" -> TRUE
      [] RT[r].kind = "bundle" -> FALSE
      [] RT[r].kind = "compress" -> DownloadsAgain(RT[r].refs[1])

\* C5 as stated: a second run after a completed first run is a no-op, the second
\* plan requests no download and the resource dir is left unchanged.
C5_SecondRunIsNoOp ==
    p_run = 2 => (p_dls[2] = 0 /\ ResourceDir(p_fs) = p_snap)

\* C5, amended: when the second run has ended the resource dir holds the same
\* files with the same bytes as after the first run, and the second plan
\* requested no download exactly when the row is rebuilt from a bundle the
\* helper already holds ready; every other row is downloaded again.
C5_SecondRunRestoresResourceDir ==
    (p_run = 2 /\ p_phase \in {"ran", "finished"}) =>
        /\ ResourceDir(p_fs) = p_snap
        /\ p_dls[2] = 0 <=> ~DownloadsAgain(p_tgt)

\* the second run of a sliced row has ended, having downloaded both slices again
C5_Witness ==
    /\ p_run = 2
    /\ p_phase \in {"ran", "finished"}
    /\ p_tgt = "SL"
    /\ p_dls[2] = 2
    /\ ResourceDir(p_fs) = p_snap

\* the destination of the plan: <resource_dir>/<hex of the digest prepared>
PlanDestination == HexPath("resource", RT[p_tgt].digest)

\* C22: the destination of a derived resource (a window of a bundle, a
\* decompressed resource, a resource rebuilt from slices) is at every moment
\* either absent or holds the complete result: it appears only by the
\* rename of a completely written temp file.
C22_DestinationNeverPartial ==
    (p_phase # "idle" /\ RT[p_tgt].kind # "leaf" /\ IsFile(p_fs, PlanDestination))
        => Sha256(ReadBytes(p_fs, PlanDestination)) = RT[p_tgt].digest

-----------------------------------------------------------------------------
(* RootfsDeployer: setup_rootfs over a file table and a resource dir       *)

\* concurrent_tasks: the semaphore's initial value
ConcurrentTasks == 2
\* how many prepare_* calls may raise in one deploy
MaxDeployFaults == 1

Root == 0
User == 1000

\* a mode is its set of permission bits
AllBits == {"ur", "uw", "ux", "gr", "gw", "gx", "or", "ow", "ox"}
Mode644 == {"ur", "uw", "gr", "or"}
Mode664 == {"ur", "uw", "gr", "gw", "or"}
Mode666 == {"ur", "uw", "gr", "gw", "or", "ow"}
Mode755 == AllBits \ {"gw", "ow"}
\* the umask the deploying process inherited: the code never sets it
Umasks == {{}, {"gw", "ow"}}

\* ft_dir joined with ft_inode
DirRows ==
    <<[path |-> "/d", uid |-> User, gid |-> User, mode |-> Mode755, xattrs |-> {"k1"}]>>

\* ft_non_regular joined with ft_inode: a symlink and a placeholder char device
NonRegularRows ==
    <<[path |-> "/d/l", type |-> "lnk", uid |-> User, gid |-> User, mode |-> AllBits,
       xattrs |-> {}],
      [path |-> "/d/c", type |-> "chr", uid |-> User, gid |-> Root, mode |-> Mode666,
       xattrs |-> {"k2"}]>>

\* iter_regular_entries: ft_regular joined with ft_inode and ft_resource,
\* ordered by digest. Rows of one inode_id carry that inode's attributes.
RegularRows ==
    <<[path |-> "/d/a", digest |-> "D1", inode_id |-> 1, links_count |-> 1,
       uid |-> Root, gid |-> Root, mode |-> Mode664, xattrs |-> {}, inlined |-> FALSE],
      [path |-> "/d/b", digest |-> "D1", inode_id |-> 2, links_count |-> 1,
       uid |-> Root, gid |-> Root, mode |-> Mode664, xattrs |-> {"k1"}, inlined |-> FALSE],
      [path |-> "/d/h1", digest |-> "D1", inode_id |-> 3, links_count |-> 2,
       uid |-> User, gid |-> User, mode |-> Mode644, xattrs |-> {"k2"}, inlined |-> FALSE],
      [path |-> "/d/h2", digest |-> "D1", inode_id |-> 3, links_count |-> 2,
       uid |-> User, gid |-> User, mode |-> Mode644, xattrs |-> {"k2"}, inlined |-> FALSE],
      [path |-> "/d/g1", digest |-> "D2", inode_id |-> 4, links_count |-> 2,
       uid |-> Root, gid |-> User, mode |-> Mode666, xattrs |-> {}, inlined |-> FALSE],
      [path |-> "/d/g2", digest |-> "D2", inode_id |-> 4, links_count |-> 2,
       uid |-> Root, gid |-> User, mode |-> Mode666, xattrs |-> {}, inlined |-> FALSE],
      [path |-> "/d/n", digest |-> "D3", inode_id |-> 5, links_count |-> 1,
       uid |-> User, gid |-> Root, mode |-> Mode666, xattrs |-> {"k1"}, inlined |-> TRUE]>>

NumRegular == Len(RegularRows)
RegularIdx == 1..NumRegular
InodeIds == {RegularRows[k].inode_id : k \in RegularIdx}

\* resource_dir / digest_hex; an inlined resource (D3) has no blob
BlobPath(digest) ==
    CASE digest = "D1" -> "/resource/D1"
      [] digest = "D2" -> "/resource/D2"
      [] digest = "D3" -> "/resource/D3"
BlobPaths == {"/resource/D1", "/resource/D2", "/resource/D3"}
RootfsPaths ==
    {DirRows[k].path : k \in 1..Len(DirRows)}
    \cup {NonRegularRows[k].path : k \in 1..Len(NonRegularRows)}
    \cup {RegularRows[k].path : k \in RegularIdx}
AllPaths == RootfsPaths \cup BlobPaths

\* ---- the file system: path -> inode number (0: no such path), and the inodes
NewInode(mode, data) ==
    [uid |-> Root, gid |-> Root, mode |-> mode, xattrs |-> {}, data |-> data]

\* the resource dir as the reconstruction engine left it
FsStart ==
    [path |-> [p \in AllPaths |->
                 IF p = "/resource/D1" THEN 1 ELSE IF p = "/resource/D2" THEN 2 ELSE 0],
     ino |-> <<NewInode(Mode644, "D1"), NewInode(Mode644, "D2")>>]

Exists(fs, p) == fs.path[p] # 0

Unlinked(fs, p) == [fs EXCEPT !.path[p] = 0]

\* a path is created with `mode`: the kernel masks the mode with the umask
Create(fs, p, mode, umask) ==
    [path |-> [fs.path EXCEPT ![p] = Len(fs.ino) + 1],
     ino |-> Append(fs.ino, NewInode(mode \ umask, ""))]

\* Path.mkdir(exist_ok=True, parents=True), of a path under the rootfs root
Mkdir(fs, p, umask) == IF Exists(fs, p) THEN fs ELSE Create(fs, p, AllBits, umask)

\* Path.touch(exist_ok=True, mode=mode)
Touch(fs, p, mode, umask) == IF Exists(fs, p) THEN fs ELSE Create(fs, p, mode, umask)

LinkAsCopy(fs, src, dst) ==
    [path |-> [fs.path EXCEPT ![dst] = Len(fs.ino) + 1],
     ino |-> Append(fs.ino, fs.ino[fs.path[src]])]

\* os.link(src, dst)
Link(fs, src, dst) == [fs EXCEPT !.path[dst] = fs.path[src]]

Chown(fs, p, uid, gid) == [fs EXCEPT !.ino[fs.path[p]].uid = uid, !.ino[fs.path[p]].gid = gid]

Chmod(fs, p, mode) == [fs EXCEPT !.ino[fs.path[p]].mode = mode]

\* _set_xattr, called only for a non-empty xattrs
SetXattr(fs, p, xattrs) ==
    IF xattrs = {} THEN fs ELSE [fs EXCEPT !.ino[fs.path[p]].xattrs = @ \cup xattrs]

WriteFile(fs, p, data) == [fs EXCEPT !.ino[fs.path[p]].data = data]

\* _copyfile_slim(src, dst)
CopyFile(fs, src, dst) == WriteFile(fs, dst, fs.ino[fs.path[src]].data)

\* ---- ota_image_libs.v1.file_table.utils
prepare_dir(fs, entry, umask) ==
    LET made == Mkdir(fs, entry.path, umask)
    IN  SetXattr(Chmod(Chown(made, entry.path, entry.uid, entry.gid),
                       entry.path, entry.mode),
                 entry.path, entry.xattrs)

prepare_non_regular(fs, entry, umask) ==
    LET made == IF entry.type = "lnk"
                THEN Create(fs, entry.path, AllBits, {})
                ELSE Create(fs, entry.path, entry.mode, umask)
    IN  SetXattr(Chown(made, entry.path, entry.uid, entry.gid), entry.path, entry.xattrs)

\* chown and chmod of a copied or inlined file, skipped for root:root
ApplyOwnerAndMode(fs, entry) ==
    IF ~(entry.uid = 0 /\ entry.gid = 0)
    THEN Chmod(Chown(fs, entry.path, entry.uid, entry.gid), entry.path, entry.mode)
    ELSE fs

prepare_regular_copy(fs, entry, rs, umask) ==
    LET copied == CopyFile(Touch(fs, entry.path, entry.mode, umask), rs, entry.path)
    IN  SetXattr(ApplyOwnerAndMode(copied, entry), entry.path, entry.xattrs)

prepare_regular_inlined(fs, entry, umask) ==
    LET written == WriteFile(Touch(fs, entry.path, entry.mode, umask),
                             entry.path, entry.digest)
    IN  SetXattr(ApplyOwnerAndMode(written, entry), entry.path, entry.xattrs)

prepare_regular_hardlink(fs, entry, rs, hardlink_skip_apply_permission) ==
    LET linked == Link(fs, rs, entry.path)
    IN  IF hardlink_skip_apply_permission THEN linked
        ELSE SetXattr(Chmod(Chown(linked, entry.path, entry.uid, entry.gid),
                            entry.path, entry.mode),
                      entry.path, entry.xattrs)

\* ---- RootfsDeployer
Fs == [path |-> d_path, ino |-> d_ino]
SetFs(fs) == d_path' = fs.path /\ d_ino' = fs.ino
IsHardlinked(k) == RegularRows[k].links_count > 1
NoHead == "-"

DeployIdle ==
    /\ d_pc = "idle"
    /\ d_umask = {}
    /\ d_idx = 1
    /\ d_se = ConcurrentTasks
    /\ d_last_exc = <<>>
    /\ d_first = {}
    /\ d_task = [k \in RegularIdx |-> "none"]
    /\ d_ftp = [k \in RegularIdx |-> FALSE]
    /\ d_hlock = 0
    /\ d_hgroup = [i \in InodeIds |-> NoHead]
    /\ d_path = FsStart.path
    /\ d_ino = FsStart.ino
    /\ d_faults = 0

DeployStart ==
    /\ d_pc = "dirs"
    /\ d_umask \in Umasks
    /\ d_idx = 1
    /\ d_se = ConcurrentTasks
    /\ d_last_exc = <<>>
    /\ d_first = {}
    /\ d_task = [k \in RegularIdx |-> "none"]
    /\ d_ftp = [k \in RegularIdx |-> FALSE]
    /\ d_hlock = 0
    /\ d_hgroup = [i \in InodeIds |-> NoHead]
    /\ d_path = FsStart.path
    /\ d_ino = FsStart.ino
    /\ d_faults = 0

\* _process_dir_entries: one entry of iter_dir_entries
ProcessDirEntry ==
    /\ d_pc = "dirs"
    /\ d_idx <= Len(DirRows)
    /\ SetFs(prepare_dir(Fs, DirRows[d_idx], d_umask))
    /\ d_idx' = d_idx + 1
    /\ UNCHANGED <<d_pc, d_umask, d_se, d_last_exc, d_first, d_task, d_ftp, d_hlock,
                   d_hgroup, d_faults, non_deploy_vars>>

DirEntriesExhaustedAlways == TRUE

\* the for loop over iter_dir_entries() has no entry left
DirEntriesExhausted == d_idx > Len(DirRows)

DirEntriesDone ==
    /\ d_pc = "dirs"
    /\ DirEntriesExhausted
    /\ d_pc' = "non_regular"
    /\ d_idx' = 1
    /\ UNCHANGED <<d_umask, d_se, d_last_exc, d_first, d_task, d_ftp, d_hlock,
                   d_hgroup, d_path, d_ino, d_faults, non_deploy_vars>>

\* prepare_dir raises: _process_dir_entries raises SetupRootfsFailed and
\* setup_rootfs ends there. mkdir may or may not have made the directory.
ProcessDirFails ==
    /\ d_pc = "dirs"
    /\ d_idx <= Len(DirRows)
    /\ d_faults < MaxDeployFaults
    /\ d_faults' = d_faults + 1
    /\ \E made \in BOOLEAN :
          SetFs(IF made THEN Mkdir(Fs, DirRows[d_idx].path, d_umask) ELSE Fs)
    /\ d_pc' = "failed_dirs"
    /\ UNCHANGED <<d_umask, d_idx, d_se, d_last_exc, d_first, d_task, d_ftp, d_hlock,
                   d_hgroup, non_deploy_vars>>

\* prepare_non_regular raises: _process_non_regular_files raises
\* SetupRootfsFailed and setup_rootfs ends there
ProcessNonRegularFails ==
    /\ d_pc = "non_regular"
    /\ d_idx <= Len(NonRegularRows)
    /\ d_faults < MaxDeployFaults
    /\ d_faults' = d_faults + 1
    /\ d_pc' = "failed_non_regular"
    /\ UNCHANGED <<d_umask, d_idx, d_se, d_last_exc, d_first, d_task, d_ftp, d_hlock,
                   d_hgroup, d_path, d_ino, non_deploy_vars>>

\* _process_non_regular_files: one entry of iter_non_regular_entries
ProcessNonRegular ==
    /\ d_pc = "non_regular"
    /\ d_idx <= Len(NonRegularRows)
    /\ SetFs(prepare_non_regular(Fs, NonRegularRows[d_idx], d_umask))
    /\ d_idx' = d_idx + 1
    /\ UNCHANGED <<d_pc, d_umask, d_se, d_last_exc, d_first, d_task, d_ftp, d_hlock,
                   d_hgroup, d_faults, non_deploy_vars>>

NonRegularDone ==
    /\ d_pc = "non_regular"
    /\ d_idx > Len(NonRegularRows)
    /\ d_pc' = "regular"
    /\ d_idx' = 1
    /\ UNCHANGED <<d_umask, d_se, d_last_exc, d_first, d_task, d_ftp, d_hlock,
                   d_hgroup, d_path, d_ino, d_faults, non_deploy_vars>>

\* _process_regular_file_entries, top of the loop: `if self._last_exc: break`,
\* and the end of the iteration; either way the pool is then shut down
LastExcIsSetNever == FALSE

\* `if self._last_exc`
LastExcIsSet == d_last_exc # <<>>

\* top of the loop over iter_regular_entries(): `if self._last_exc: break`,
\* or the iterator is exhausted
DispatchCheck ==
    /\ d_pc = "regular"
    /\ d_pc' = IF d_idx > NumRegular \/ LastExcIsSet THEN "join" ELSE "acquire"
    /\ UNCHANGED <<d_umask, d_idx, d_se, d_last_exc, d_first, d_task, d_ftp, d_hlock,
                   d_hgroup, d_path, d_ino, d_faults, non_deploy_vars>>

FirstToPrepareAlways(digest) == TRUE

\* `if _digest not in _first_prepared_digest`
FirstToPrepare(digest) == digest \notin d_first

SeAcquirableAlways == TRUE

\* self._se.acquire() returns: a blocking acquire waits for a permit
SeAcquirable == d_se > 0

\* self._se.acquire(), first-to-prepare of the digest, pool.submit
DispatchSubmit ==
    /\ d_pc = "acquire"
    /\ SeAcquirable
    /\ d_se' = d_se - 1
    /\ d_ftp' = [d_ftp EXCEPT ![d_idx] = FirstToPrepare(RegularRows[d_idx].digest)]
    /\ d_first' = d_first \cup {RegularRows[d_idx].digest}
    /\ d_task' = [d_task EXCEPT ![d_idx] = "queued"]
    /\ d_idx' = d_idx + 1
    /\ d_pc' = "regular"
    /\ UNCHANGED <<d_umask, d_last_exc, d_hlock, d_hgroup, d_path, d_ino, d_faults,
                   non_deploy_vars>>

\* _process_normal_file_at_thread
ProcessNormalFile(k) ==
    /\ d_task[k] = "queued"
    /\ ~IsHardlinked(k)
    /\ LET e == RegularRows[k]
       IN  SetFs(IF e.inlined THEN prepare_regular_inlined(Fs, e, d_umask)
                 ELSE IF d_ftp[k]
                 THEN prepare_regular_hardlink(Fs, e, BlobPath(e.digest), FALSE)
                 ELSE prepare_regular_copy(Fs, e, BlobPath(e.digest), d_umask))
    /\ d_task' = [d_task EXCEPT ![k] = "returned"]
    /\ UNCHANGED <<d_pc, d_umask, d_idx, d_se, d_last_exc, d_first, d_ftp, d_hlock,
                   d_hgroup, d_faults, non_deploy_vars>>

\* `with self._hardlink_group_lock`
HardlinkGroupLock(k) ==
    /\ d_task[k] = "queued"
    /\ IsHardlinked(k)
    /\ d_hlock = 0
    /\ d_hlock' = k
    /\ d_task' = [d_task EXCEPT ![k] = "locked"]
    /\ UNCHANGED <<d_pc, d_umask, d_idx, d_se, d_last_exc, d_first, d_ftp, d_hgroup,
                   d_path, d_ino, d_faults, non_deploy_vars>>

\* _process_hardlinked_file_at_thread, the body under the lock
ProcessHardlinkedFile(k) ==
    /\ d_task[k] = "locked"
    /\ LET e == RegularRows[k]
           head == d_hgroup[e.inode_id]
       IN  IF head # NoHead
           THEN /\ SetFs(prepare_regular_hardlink(Fs, e, head, TRUE))
                /\ UNCHANGED d_hgroup
           ELSE /\ SetFs(IF e.inlined THEN prepare_regular_inlined(Fs, e, d_umask)
                         ELSE IF d_ftp[k]
                         THEN prepare_regular_hardlink(Fs, e, BlobPath(e.digest), FALSE)
                         ELSE prepare_regular_copy(Fs, e, BlobPath(e.digest), d_umask))
                /\ d_hgroup' = [d_hgroup EXCEPT ![e.inode_id] = e.path]
    /\ d_hlock' = 0
    /\ d_task' = [d_task EXCEPT ![k] = "returned"]
    /\ UNCHANGED <<d_pc, d_umask, d_idx, d_se, d_last_exc, d_first, d_ftp, d_faults,
                   non_deploy_vars>>

\* a prepare_* call raises PrepareEntryFailed: the target is unlinked, the
\* group lock, if held, is released on the way out
PrepareEntryFails(k) ==
    /\ d_faults < MaxDeployFaults
    /\ \/ d_task[k] = "queued" /\ ~IsHardlinked(k)
       \/ d_task[k] = "locked"
    /\ d_faults' = d_faults + 1
    /\ SetFs(Unlinked(Fs, RegularRows[k].path))
    /\ d_hlock' = IF d_hlock = k THEN 0 ELSE d_hlock
    /\ d_task' = [d_task EXCEPT ![k] = "raised"]
    /\ UNCHANGED <<d_pc, d_umask, d_idx, d_se, d_last_exc, d_first, d_ftp, d_hgroup,
                   non_deploy_vars>>

KeepExceptionIfNone(last_exc, raised, k) ==
    IF raised /\ last_exc = <<>> THEN <<k>> ELSE last_exc

\* `if _exc := _fut.exception(): self._last_exc = _exc`, of both deployers
KeepException(last_exc, raised, k) == IF raised THEN <<k>> ELSE last_exc

\* _task_done_cb: release the semaphore, keep the task's exception
TaskDoneCb(k) ==
    /\ d_task[k] \in {"returned", "raised"}
    /\ d_se' = d_se + 1
    /\ d_last_exc' = KeepException(d_last_exc, d_task[k] = "raised", k)
    /\ d_task' = [d_task EXCEPT ![k] = "done"]
    /\ UNCHANGED <<d_pc, d_umask, d_idx, d_first, d_ftp, d_hlock, d_hgroup, d_path,
                   d_ino, d_faults, non_deploy_vars>>

\* leaving `with ThreadPoolExecutor`: every submitted task has finished; then
\* SetupRootfsFailed is raised if a task failed
PoolShutdown ==
    /\ d_pc = "join"
    /\ \A k \in RegularIdx : d_task[k] \in {"none", "done"}
    /\ d_pc' = IF d_last_exc # <<>> THEN "failed" ELSE "done"
    /\ UNCHANGED <<d_umask, d_idx, d_se, d_last_exc, d_first, d_task, d_ftp, d_hlock,
                   d_hgroup, d_path, d_ino, d_faults, non_deploy_vars>>

DeployNext ==
    \/ ProcessDirEntry
    \/ ProcessDirFails
    \/ ProcessNonRegularFails
    \/ DirEntriesDone
    \/ ProcessNonRegular
    \/ NonRegularDone
    \/ DispatchCheck
    \/ DispatchSubmit
    \/ PoolShutdown
    \/ \E k \in RegularIdx :
        \/ ProcessNormalFile(k)
        \/ HardlinkGroupLock(k)
        \/ ProcessHardlinkedFile(k)
        \/ PrepareEntryFails(k)
        \/ TaskDoneCb(k)

\* ---- claims on the deployed rootfs
\* the rows of the whole file table, with the attributes of their inode
AllRows ==
    {DirRows[k] : k \in 1..Len(DirRows)}
    \cup {[f \in {"path", "uid", "gid", "mode", "xattrs"} |-> NonRegularRows[k][f]] :
            k \in 1..Len(NonRegularRows)}
    \cup {[f \in {"path", "uid", "gid", "mode", "xattrs"} |-> RegularRows[k][f]] :
            k \in RegularIdx}

Stat(p) == d_ino[d_path[p]]

\* C9: after a deploy that ended without error, the paths of every hardlink
\* group (rows of one inode_id with links_count > 1) are present and refer to
\* one and the same on-disk inode, whatever order the workers ran in.
C9_HardlinkGroupSharesInode ==
    d_pc = "done" =>
        \A j, k \in RegularIdx :
            (IsHardlinked(j) /\ RegularRows[j].inode_id = RegularRows[k].inode_id) =>
                /\ d_path[RegularRows[j].path] # 0
                /\ d_path[RegularRows[j].path] = d_path[RegularRows[k].path]

\* the deploy ended well with the later member of a group as its head
C9_Witness ==
    /\ d_pc = "done"
    /\ d_hgroup[3] = "/d/h2"
    /\ d_path["/d/h1"] # 0
    /\ d_path["/d/h1"] = d_path["/d/h2"]

\* C10 as stated: after a deploy that ended without error every row's path
\* has the uid, gid and mode of the row and carries every xattr of the row.
C10_PermissionsAsRecorded ==
    d_pc = "done" =>
        \A r \in AllRows :
            /\ d_path[r.path] # 0
            /\ Stat(r.path).uid = r.uid
            /\ Stat(r.path).gid = r.gid
            /\ Stat(r.path).mode = r.mode
            /\ r.xattrs \subseteq Stat(r.path).xattrs

AllDirsMade == \A k \in 1..Len(DirRows) : d_path[DirRows[k].path] # 0
AllNonRegularMade == \A k \in 1..Len(NonRegularRows) : d_path[NonRegularRows[k].path] # 0
NoNonRegularMade == \A k \in 1..Len(NonRegularRows) : d_path[NonRegularRows[k].path] = 0
NoTaskSubmitted == \A k \in RegularIdx : d_task[k] = "none"

\* C11: no non-regular entry is processed before every directory entry has
\* been created, no regular-file task is submitted before every non-regular
\* entry has been processed, and a failure in the directory phase or in the
\* non-regular phase ends the deploy before the next phase starts.
C11_PhasesInOrder ==
    /\ ~NoNonRegularMade => AllDirsMade
    /\ ~NoTaskSubmitted => (AllDirsMade /\ AllNonRegularMade)
    /\ d_pc \in {"dirs", "failed_dirs"} => (NoNonRegularMade /\ NoTaskSubmitted)
    /\ d_pc \in {"non_regular", "failed_non_regular"} => NoTaskSubmitted

\* the non-regular phase failed on its second entry: nothing was submitted
C11_Witness ==
    /\ d_pc = "failed_non_regular"
    /\ d_idx = 2
    /\ AllDirsMade
    /\ ~NoNonRegularMade
    /\ NoTaskSubmitted

-----------------------------------------------------------------------------
(* ResourcesDeployer: deploy_resources over the digests of the file table  *)

\* workers_num: pool threads, and the parties of the finalize barrier
WorkersNum == 2
\* concurrent_jobs: the semaphore's initial value
ConcurrentJobs == 2
\* digests returned by select_all_digests_with_size(exclude_inlined=True)
MaxDigests == 3
\* how many _prepare_one_resource_at_thread calls may raise
MaxResFaults == 2

Threads == 1..WorkersNum
Digests == 1..MaxDigests

ResIdle ==
    /\ r_pc = "idle"
    /\ r_n = 0
    /\ r_idx = 1
    /\ r_se = ConcurrentJobs
    /\ r_last_exc = <<>>
    /\ r_task = [k \in Digests |-> <<"none", 0>>]
    /\ r_fin = [i \in Threads |-> "none"]
    /\ r_thr = [t \in Threads |-> "absent"]
    /\ r_closed = [t \in Threads |-> 0]
    /\ r_failed = <<>>
    /\ r_idle = 0

\* a new ResourcesDeployer, and a file table with r_n digests to deploy
ResStart ==
    /\ r_pc = "check"
    /\ r_n \in 0..MaxDigests
    /\ r_idx = 1
    /\ r_se = ConcurrentJobs
    /\ r_last_exc = <<>>
    /\ r_task = [k \in Digests |-> <<"none", 0>>]
    /\ r_fin = [i \in Threads |-> "none"]
    /\ r_thr = [t \in Threads |-> "absent"]
    /\ r_closed = [t \in Threads |-> 0]
    /\ r_failed = <<>>
    /\ r_idle = 0

ResPoolDrainedAlways == TRUE

\* leaving `with ThreadPoolExecutor`: shutdown(wait=True) has joined the
\* threads, so every submitted work item and its done-callback has run
ResPoolDrained ==
    /\ \A k \in Digests : r_task[k][1] \in {"none", "done"}
    /\ \A i \in Threads : r_fin[i] = "passed"

\* the pool's work queue is first-in first-out
ResTaskIsNext(k) == \A j \in Digests : j < k => r_task[j][1] # "queued"
ResFinalizerIsNext(i) ==
    /\ \A k \in Digests : r_task[k][1] # "queued"
    /\ \A j \in Threads : j < i => r_fin[j] # "queued"

\* ---- ThreadPoolExecutor(max_workers=self._workers_num, initializer=...)
\* submit, after the work item is queued: _adjust_thread_count takes an idle
\* count if there is one, else starts a thread while fewer than max_workers
\* exist; the new thread runs the initializer and waits for work
SpawnedThread(thr) ==
    CHOOSE t \in Threads : thr[t] = "absent" /\ \A u \in 1..(t - 1) : thr[u] # "absent"

AdjustThreadCount ==
    IF r_idle > 0
    THEN r_idle' = r_idle - 1 /\ UNCHANGED r_thr
    ELSE /\ UNCHANGED r_idle
         /\ IF \E t \in Threads : r_thr[t] = "absent"
            THEN r_thr' = [r_thr EXCEPT ![SpawnedThread(r_thr)] = "free"]
            ELSE UNCHANGED r_thr

\* `if self._last_exc`
ResLastExcIsSet == r_last_exc # <<>>

\* top of the loop over the digests: `if self._last_exc: break`, or exhausted
ResDispatchCheck ==
    /\ r_pc = "check"
    /\ r_pc' = IF r_idx > r_n \/ ResLastExcIsSet THEN "finalize" ELSE "acquire"
    /\ UNCHANGED <<r_n, r_idx, r_se, r_last_exc, r_task, r_fin, r_thr, r_closed,
                   r_failed, r_idle, non_res_vars>>

\* self._concurrent_se.acquire(); pool.submit(...).add_done_callback
ResDispatchSubmit ==
    /\ r_pc = "acquire"
    /\ r_se > 0
    /\ r_se' = r_se - 1
    /\ r_task' = [r_task EXCEPT ![r_idx] = <<"queued", 0>>]
    /\ r_idx' = r_idx + 1
    /\ r_pc' = "check"
    /\ AdjustThreadCount
    /\ UNCHANGED <<r_n, r_last_exc, r_fin, r_closed, r_failed, non_res_vars>>

FinalizersToSubmitFewer == WorkersNum - 1

\* for _ in range(self._workers_num)
FinalizersToSubmit == WorkersNum

\* one round of the loop: pool.submit(self._thread_worker_finalizer); after
\* the last round the with block is left
ResSubmitFinalizers ==
    /\ r_pc = "finalize"
    /\ LET submitted == Cardinality({i \in Threads : r_fin[i] # "none"})
       IN  IF submitted < FinalizersToSubmit
           THEN /\ r_fin' = [r_fin EXCEPT ![submitted + 1] = "queued"]
                /\ AdjustThreadCount
                /\ UNCHANGED r_pc
           ELSE /\ r_pc' = "join"
                /\ UNCHANGED <<r_fin, r_thr, r_idle>>
    /\ UNCHANGED <<r_n, r_idx, r_se, r_last_exc, r_task, r_closed, r_failed,
                   non_res_vars>>

\* a pool thread takes the next queued task
ResTaskStart(t, k) ==
    /\ r_thr[t] = "free"
    /\ r_task[k] = <<"queued", 0>>
    /\ ResTaskIsNext(k)
    /\ r_thr' = [r_thr EXCEPT ![t] = "busy"]
    /\ r_task' = [r_task EXCEPT ![k] = <<"running", t>>]
    /\ UNCHANGED <<r_pc, r_n, r_idx, r_se, r_last_exc, r_fin, r_closed, r_failed,
                   r_idle, non_res_vars>>

\* _prepare_one_resource_at_thread returns
ResTaskReturns(t, k) ==
    /\ r_task[k] = <<"running", t>>
    /\ r_task' = [r_task EXCEPT ![k] = <<"returned", t>>]
    /\ UNCHANGED <<r_pc, r_n, r_idx, r_se, r_last_exc, r_fin, r_thr, r_closed,
                   r_failed, r_idle, non_res_vars>>

\* _prepare_one_resource_at_thread raises
ResTaskRaises(t, k) ==
    /\ r_task[k] = <<"running", t>>
    /\ Len(r_failed) < MaxResFaults
    /\ r_failed' = Append(r_failed, k)
    /\ r_task' = [r_task EXCEPT ![k] = <<"raised", t>>]
    /\ UNCHANGED <<r_pc, r_n, r_idx, r_se, r_last_exc, r_fin, r_thr, r_closed,
                   r_idle, non_res_vars>>

\* _worker_cb, run by the thread that ran the task
ResWorkerCb(t, k) ==
    /\ r_task[k] \in {<<"returned", t>>, <<"raised", t>>}
    /\ r_se' = r_se + 1
    /\ r_last_exc' = KeepException(r_last_exc, r_task[k][1] = "raised", k)
    /\ r_task' = [r_task EXCEPT ![k] = <<"done", 0>>]
    /\ r_thr' = [r_thr EXCEPT ![t] = "free"]
    \* the work item has run: the thread counts itself idle
    /\ r_idle' = r_idle + 1
    /\ UNCHANGED <<r_pc, r_n, r_idx, r_fin, r_closed, r_failed, non_res_vars>>

\* _thread_worker_finalizer: close this thread's reader, wait at the barrier
ResFinalizerStart(t, i) ==
    /\ r_thr[t] = "free"
    /\ r_fin[i] = "queued"
    /\ ResFinalizerIsNext(i)
    /\ r_closed' = [r_closed EXCEPT ![t] = @ + 1]
    /\ r_thr' = [r_thr EXCEPT ![t] = "barrier"]
    /\ r_fin' = [r_fin EXCEPT ![i] = "waiting"]
    /\ UNCHANGED <<r_pc, r_n, r_idx, r_se, r_last_exc, r_task, r_failed, r_idle, non_res_vars>>

\* the barrier trips when workers_num threads wait at it
ResBarrierTrips ==
    /\ \A t \in Threads : r_thr[t] = "barrier"
    /\ r_thr' = [t \in Threads |-> "free"]
    /\ r_fin' = [i \in Threads |-> "passed"]
    /\ r_idle' = r_idle + WorkersNum
    /\ UNCHANGED <<r_pc, r_n, r_idx, r_se, r_last_exc, r_task, r_closed, r_failed,
                   non_res_vars>>

\* the pool is left; raise DeployResourcesFailed if self._last_exc, else return
ResPoolShutdown ==
    /\ r_pc = "join"
    /\ ResPoolDrained
    /\ r_pc' = IF r_last_exc # <<>> THEN "raised" ELSE "returned"
    /\ UNCHANGED <<r_n, r_idx, r_se, r_last_exc, r_task, r_fin, r_thr, r_closed,
                   r_failed, r_idle, non_res_vars>>

ResNext ==
    \/ ResDispatchCheck
    \/ ResDispatchSubmit
    \/ ResSubmitFinalizers
    \/ ResBarrierTrips
    \/ ResPoolShutdown
    \/ \E t \in Threads :
        \/ \E k \in Digests :
            \/ ResTaskStart(t, k)
            \/ ResTaskReturns(t, k)
            \/ ResTaskRaises(t, k)
            \/ ResWorkerCb(t, k)
        \/ \E i \in Threads : ResFinalizerStart(t, i)

Submits(k) == d_task[k] = "none" /\ d_task'[k] = "queued"
ResSubmits(k) == r_task[k][1] = "none" /\ r_task'[k][1] = "queued"

\* C23 (as stated): once the failure of a task is recorded in _last_exc,
\* the dispatcher submits no new task. For both deployers.
C23_NoSubmissionAfterFailure ==
    [][/\ d_last_exc # <<>> => \A k \in RegularIdx : ~Submits(k)
       /\ r_last_exc # <<>> => \A k \in Digests : ~ResSubmits(k)]_vars

\* C23 (amended): _last_exc is read at the top of each loop round, before
\* the semaphore is acquired. Once set it stays set; a round that reads it
\* set leaves the loop, so with _last_exc set the dispatcher is never taken
\* from the check to the acquire, and the only task submitted after the
\* failure was recorded is the one of the round that had read _last_exc
\* before. Submitted tasks are never taken back: the pool exit waits for
\* them. For both deployers.
C23_LoopStopsAtNextCheck ==
    [][/\ d_last_exc # <<>> => d_last_exc' # <<>>
       /\ (d_last_exc # <<>> /\ d_pc = "regular") => d_pc' \in {"regular", "join"}
       /\ \A k \in RegularIdx : Submits(k) => (d_pc = "acquire" /\ d_pc' = "regular")
       /\ \A k \in RegularIdx : d_task[k] # "none" => d_task'[k] # "none"
       /\ d_pc \in {"join", "done", "failed"} => \A k \in RegularIdx : ~Submits(k)
       /\ r_last_exc # <<>> => r_last_exc' # <<>>
       /\ (r_last_exc # <<>> /\ r_pc = "check") => r_pc' \in {"check", "finalize"}
       /\ \A k \in Digests : ResSubmits(k) => (r_pc = "acquire" /\ r_pc' = "check")
       /\ \A k \in Digests : r_task[k][1] # "none" => r_task'[k][1] # "none"
       /\ r_pc \in {"finalize", "join", "returned", "raised"} =>
              \A k \in Digests : ~ResSubmits(k)]_vars

\* the first task failed while the second was in flight and the dispatcher
\* was waiting for a permit: the third task was submitted with the permit
\* the failed task gave back, after its failure was recorded; the loop has
\* ended at the next check and the fourth entry is never submitted
C23_Witness ==
    /\ d_last_exc = <<1>>
    /\ d_task[1] = "done"
    /\ d_task[2] \notin {"none", "done"}
    /\ d_task[3] = "queued"
    /\ d_task[4] = "none"
    /\ d_pc = "join"

\* this step runs the done-callback of the failed task k
FailureRecorded(k) == d_task[k] = "raised" /\ d_task'[k] = "done"
ResFailureRecorded(k) == r_task[k][1] = "raised" /\ r_task'[k][1] = "done"

InFlight == {k \in RegularIdx : d_task[k] \notin {"none", "done"}}

\* C25: the tasks submitted to the rootfs deployer's pool and not yet
\* finished are at most concurrent_tasks: each holds exactly one permit of
\* the semaphore, taken before its submission and given back by its
\* done-callback, whether the task returned or raised.
C25_InFlightWithinPermits ==
    d_pc # "idle" =>
        /\ d_se \in 0..ConcurrentTasks
        /\ Cardinality(InFlight) + d_se = ConcurrentTasks

\* all permits are out again after a failed task gave its permit back: the
\* dispatcher took it for the next submission
C25_Witness ==
    /\ d_last_exc # <<>>
    /\ d_se = 0
    /\ Cardinality(InFlight) = ConcurrentTasks

\* the entry of a digest that iter_regular_entries() yields first
FirstOfDigest(digest) ==
    CHOOSE k \in RegularIdx :
        /\ RegularRows[k].digest = digest
        /\ \A j \in 1..(k - 1) : RegularRows[j].digest # digest

\* the path of entry k is there and is a hard link of resource_dir/<digest>
LinkedToBlob(k) ==
    /\ d_path[RegularRows[k].path] # 0
    /\ d_path[RegularRows[k].path] = d_path[BlobPath(RegularRows[k].digest)]

\* C26: of the entries of one digest only the one met first in the walk is
\* ever submitted as first to prepare, so only it (and the members of its
\* own hardlink group, linked to it) can be a hard link of
\* resource_dir/<digest>; every other entry gets a copy or a link to the
\* head of its own group, and two paths with different inode_id never share
\* an on-disk inode.
C26_BlobHardlinkedOnce ==
    /\ \A k \in RegularIdx : d_ftp[k] => k = FirstOfDigest(RegularRows[k].digest)
    /\ \A k \in RegularIdx :
          LinkedToBlob(k) =>
              /\ ~RegularRows[k].inlined
              /\ RegularRows[k].inode_id
                    = RegularRows[FirstOfDigest(RegularRows[k].digest)].inode_id
    /\ \A j, k \in RegularIdx :
          (/\ RegularRows[j].inode_id # RegularRows[k].inode_id
           /\ d_path[RegularRows[j].path] # 0
           /\ d_path[RegularRows[k].path] # 0)
          => d_path[RegularRows[j].path] # d_path[RegularRows[k].path]

\* a deploy that ended well: /d/a, met first for D1, is a hard link of the
\* blob and /d/b is a copy; for D2 the later member of the group ran first
\* and was copied, so nothing is a hard link of that blob
C26_Witness ==
    /\ d_pc = "done"
    /\ LinkedToBlob(1)
    /\ ~LinkedToBlob(2)
    /\ d_hgroup[4] = "/d/g2"
    /\ ~LinkedToBlob(5)
    /\ ~LinkedToBlob(6)

\* deploy_resources has returned or raised
ResEnded == r_pc \in {"returned", "raised"}

-----------------------------------------------------------------------------
(* X5cX509CertChain: the validator of an x5c list, add_ee, add_interms     *)

MAX_CHAIN_LENGTH == 6
\* the longest issuer chain offered to the validator
MaxChainInput == 8
\* the most certificates given to one add_interms call
MaxAdd == 7

\* a certificate is what the chain logic reads of it: subject and issuer
Cert(subject, issuer) == [subject |-> subject, issuer |-> issuer]
\* member i of the issuer chain: 0 is the end-entity, i + 1 issued i
ChainCert(i) == Cert(i, i + 1)
\* a second certificate issued by the issuer of the end-entity
SiblingCert == Cert(100, 1)
\* a certificate of another chain
UnrelatedCert == Cert(200, 201)
\* a self-signed root CA
RootCert == Cert(300, 300)

Chain(n) == [i \in 1..n |-> ChainCert(i - 1)]
Reversed(seq) == [i \in 1..Len(seq) |-> seq[Len(seq) + 1 - i]]
ExtraCerts == {SiblingCert, UnrelatedCert, RootCert, ChainCert(0)}
\* the lists given to the validator: a chain, leaf first or leaf last, alone
\* or with one more certificate in front of it or behind it
X5cInputs ==
    LET chains == {Chain(n) : n \in 0..MaxChainInput}
                  \cup {Reversed(Chain(n)) : n \in 0..MaxChainInput}
    IN  chains
        \cup {<<x>> \o c : x \in ExtraCerts, c \in chains}
        \cup {c \o <<x>> : x \in ExtraCerts, c \in chains}

\* ---- python dict, keys in insertion order: a sequence of [key, cert]
DictKeys(d) == {d[i].key : i \in 1..Len(d)}
DictGet(d, key) == (CHOOSE i \in 1..Len(d) : d[i].key = key)
\* d[key] = cert: a key already there keeps its place
DictSet(d, key, cert) ==
    IF key \in DictKeys(d)
    THEN [d EXCEPT ![DictGet(d, key)] = [key |-> key, cert |-> cert]]
    ELSE Append(d, [key |-> key, cert |-> cert])

IsRootCA(cert) == cert.subject = cert.issuer

\* the first loop of validator: fill issuer_cert_map and subject_cert_map
RECURSIVE LoadCerts(_, _, _)
LoadCerts(data, issuer_cert_map, subject_cert_map) ==
    IF data = <<>>
    THEN [err |-> "", issuer_cert_map |-> issuer_cert_map,
          subject_cert_map |-> subject_cert_map]
    ELSE IF Len(issuer_cert_map) >= MAX_CHAIN_LENGTH
    THEN [err |-> "exceeded maximum chain length", issuer_cert_map |-> <<>>,
          subject_cert_map |-> <<>>]
    ELSE IF IsRootCA(Head(data))
    THEN [err |-> "root CA in chain", issuer_cert_map |-> <<>>,
          subject_cert_map |-> <<>>]
    ELSE LoadCerts(Tail(data),
                   DictSet(issuer_cert_map, Head(data).issuer, Head(data)),
                   DictSet(subject_cert_map, Head(data).subject, Head(data)))

\* the ee cert: the first value of issuer_cert_map whose subject is no key of it
EECandidates(issuer_cert_map) ==
    {i \in 1..Len(issuer_cert_map) :
        issuer_cert_map[i].cert.subject \notin DictKeys(issuer_cert_map)}
FindEE(issuer_cert_map) ==
    LET cands == EECandidates(issuer_cert_map)
    IN  IF cands = {} THEN <<>>
        ELSE <<issuer_cert_map[CHOOSE i \in cands : \A j \in cands : i <= j].cert>>

\* the while loop forming the intermediate chain
RECURSIVE FindInterms(_, _, _, _)
FindInterms(cur_issuer, subject_cert_map, depth_count, interms) ==
    IF cur_issuer \notin DictKeys(subject_cert_map)
    THEN [err |-> "", interms |-> interms]
    ELSE IF depth_count + 1 > MAX_CHAIN_LENGTH
    THEN [err |-> "exceeded maximum chain length", interms |-> <<>>]
    ELSE LET issuer_cert == subject_cert_map[DictGet(subject_cert_map, cur_issuer)].cert
         IN  FindInterms(issuer_cert.issuer, subject_cert_map, depth_count + 1,
                         Append(interms, issuer_cert))

\* add_interms raises ValueError
AddIntermsRefused(interms, certs) ==
    \/ \E i \in 1..Len(certs) : IsRootCA(certs[i])
    \/ Len(interms) >= MAX_CHAIN_LENGTH

\* X5cX509CertChain.validator(data): err is "" when a chain is returned
validator(data) ==
    LET loaded == LoadCerts(data, <<>>, <<>>)
        ee == FindEE(loaded.issuer_cert_map)
        walked == FindInterms(ee[1].issuer, loaded.subject_cert_map, 0, <<>>)
        none == [err |-> "", ee |-> <<>>, interms |-> <<>>]
    IN  IF loaded.err # "" THEN [none EXCEPT !.err = loaded.err]
        ELSE IF ee = <<>> THEN [none EXCEPT !.err = "end-entity not found"]
        ELSE IF walked.err # "" THEN [none EXCEPT !.err = walked.err]
        ELSE IF Len(loaded.issuer_cert_map) # Len(walked.interms) + 1
        THEN [none EXCEPT !.err = "multiple chains found"]
        ELSE IF AddIntermsRefused(<<>>, walked.interms)
        THEN [none EXCEPT !.err = "add_interms refused"]
        ELSE [err |-> "", ee |-> ee, interms |-> walked.interms]

ChainIdle ==
    /\ x_pc = "idle" /\ x_data = <<>> /\ x_ee = <<>> /\ x_interms = <<>>
    /\ x_err = ""

ChainStart ==
    /\ x_pc = "start" /\ x_data \in X5cInputs /\ x_ee = <<>> /\ x_interms = <<>>
    /\ x_err = ""

\* the argument lists of add_interms: n intermediates, or a root CA
AddIntermsInputs ==
    {[i \in 1..n |-> ChainCert(i)] : n \in 0..MaxAdd} \cup {<<RootCert>>}

\* X5cX509CertChain.validator(x_data)
X5cValidate ==
    /\ x_pc = "start"
    /\ LET res == validator(x_data)
       IN  /\ x_ee' = res.ee
           /\ x_interms' = res.interms
           /\ x_err' = res.err
    /\ x_pc' = "validated"
    /\ UNCHANGED <<x_data, non_chain_vars>>

\* X509CertChainBase(): an empty chain
NewChain ==
    /\ x_pc = "start"
    /\ x_pc' = "object"
    /\ x_data' = <<>>
    /\ UNCHANGED <<x_ee, x_interms, x_err, non_chain_vars>>

\* a chain object exists: made empty, or returned by the validator
HasChain == x_pc = "object" \/ (x_pc = "validated" /\ x_ee # <<>>)

add_ee(cert) ==
    /\ HasChain
    /\ IF x_ee # <<>>
       THEN x_err' = "ee already set" /\ UNCHANGED x_ee
       ELSE x_err' = "" /\ x_ee' = <<cert>>
    /\ UNCHANGED <<x_pc, x_data, x_interms, non_chain_vars>>

add_interms(certs) ==
    /\ HasChain
    /\ IF x_ee = <<>>
       THEN x_err' = "ee must be set first" /\ UNCHANGED x_interms
       ELSE IF AddIntermsRefused(x_interms, certs)
       THEN x_err' = "add_interms refused" /\ UNCHANGED x_interms
       ELSE x_err' = "" /\ x_interms' = x_interms \o certs
    /\ UNCHANGED <<x_pc, x_data, x_ee, non_chain_vars>>

ChainNext ==
    \/ X5cValidate
    \/ NewChain
    \/ add_ee(ChainCert(0))
    \/ \E certs \in AddIntermsInputs : add_interms(certs)

\* ---- what the documentation says of an accepted list
CertsOf(data) == {data[i] : i \in 1..Len(data)}
\* the end-entity candidates: the subject is not the issuer of any other cert
DocEECandidates(data) ==
    {c \in CertsOf(data) : \A d \in CertsOf(data) \ {c} : d.issuer # c.subject}
\* the certificates met walking the issuers from cert c
RECURSIVE DocChainFrom(_, _)
DocChainFrom(c, rest) ==
    LET up == {d \in rest : d.subject = c.issuer}
    IN  IF up = {} THEN {c}
        ELSE LET d == CHOOSE d \in up : TRUE
             IN  {c} \cup DocChainFrom(d, rest \ {d})
DocAccepts(data) ==
    /\ \A c \in CertsOf(data) : ~IsRootCA(c)
    /\ Cardinality(DocEECandidates(data)) = 1
    /\ LET ee == CHOOSE c \in DocEECandidates(data) : TRUE
       IN  DocChainFrom(ee, CertsOf(data) \ {ee}) = CertsOf(data)
    /\ Cardinality(CertsOf(data)) <= MAX_CHAIN_LENGTH

\* C13: the validator accepts a list iff it has exactly one end-entity
\* candidate, every other certificate is on the issuer chain that starts
\* from it, and the chain has at most 6 certificates (a list with a root CA
\* counted as rejected).
C13_AcceptsIffOneChain ==
    x_pc = "validated" => (x_err = "" <=> DocAccepts(x_data))

\* C15: a chain never holds more than 6 intermediates, whatever sequence of
\* validator, add_ee and add_interms calls built it.
C15_ChainWithinCap == Len(x_interms) <= MAX_CHAIN_LENGTH

-----------------------------------------------------------------------------
(* verify-sign: verify_sign_cmd over an image root                         *)

\* the values the varying byte of index.json takes
MaxBody == 2

\* index.json: whether the text parses as an ImageIndex, its
\* annotations.signed_at and the rest of the document
IndexFiles ==
    [valid : BOOLEAN, signed_at : {<<>>, <<1>>}, body : 0..MaxBody]

\* sha256 over the bytes of index.json: different bytes, different digests
IndexDigest(f) == <<"sha256", f.valid, f.signed_at, f.body>>

\* the key pair of a certificate is named by its subject
PubKey(cert) == cert.subject
\* ES256 signature of the signing input (headers and payload) under a key
Es256(key, x5c, claims) == [key |-> key, x5c |-> x5c, claims |-> claims]

\* compose_index_jwt: the claims carry the descriptor of index.json, the
\* header the certificate chain
compose_index_jwt(index_descriptor, sign_cert_chain, sign_key) ==
    [x5c |-> sign_cert_chain,
     claims |-> [image_index |-> index_descriptor],
     sig |-> Es256(sign_key, sign_cert_chain, [image_index |-> index_descriptor])]

\* jwt.decode(token, key, verify_signature=True) does not raise
JwtSignatureValid(token, pub_key) ==
    token.sig = Es256(pub_key, token.x5c, token.claims)

\* the chains a signer puts in the x5c header
SignChains == {Chain(1), Chain(2)}
\* the key of a certificate that is not in the chain
OtherKey == PubKey(UnrelatedCert)

\* --ca-dir: not given, a path that is no directory, or a directory of CA
\* certificates (the subjects of the root certificates in it)
CaDirs ==
    {[given |-> FALSE, is_dir |-> FALSE, roots |-> {}],
     [given |-> TRUE, is_dir |-> FALSE, roots |-> {}],
     [given |-> TRUE, is_dir |-> TRUE, roots |-> {}],
     [given |-> TRUE, is_dir |-> TRUE, roots |-> {1, 2}]}

\* CACertStore.verify: the chain ee, interms leads to a root of the store
CaStoreVerifies(roots, ee, interms) ==
    IF interms = <<>> THEN ee.issuer \in roots
    ELSE interms[Len(interms)].issuer \in roots

VerifyIdle ==
    /\ v_pc = "idle" /\ v_layout = FALSE /\ v_index = <<>> /\ v_jwt = <<>>
    /\ v_ca = [given |-> FALSE, is_dir |-> FALSE, roots |-> {}]
    /\ v_result = "" /\ v_tampered = FALSE

\* an image root as the signing tool left it, or one with no index.jwt, or
\* one whose index.jwt was signed with a key that is not the certificate's
VerifyStart ==
    /\ v_pc = "ready"
    /\ v_layout \in BOOLEAN
    /\ \E f \in IndexFiles, chain \in SignChains,
          key \in {PubKey(ChainCert(0)), OtherKey} :
          /\ f.valid
          /\ v_index = <<f>>
          /\ v_jwt \in {<<>>, <<compose_index_jwt(IndexDigest(f), chain, key)>>}
    /\ v_ca \in CaDirs
    /\ v_result = ""
    /\ v_tampered = FALSE

\* index.json is changed on disk while index.jwt is kept: one byte of the
\* body, a byte that breaks the JSON syntax, or the file is removed
TamperIndex ==
    /\ v_pc = "ready" /\ v_index # <<>>
    /\ \/ \E b \in 0..MaxBody :
            /\ b # v_index[1].body
            /\ v_index' = <<[v_index[1] EXCEPT !.body = b]>>
       \/ v_index[1].valid /\ v_index' = <<[v_index[1] EXCEPT !.valid = FALSE]>>
       \/ v_index' = <<>>
    /\ v_tampered' = TRUE
    /\ UNCHANGED <<v_pc, v_layout, v_jwt, v_ca, v_result, non_ver_vars>>

\* the outcome of verify_sign_cmd(args) in the order of its checks
VerifySignOutcome(layout, index, token, ca) ==
    IF ~layout \/ index = <<>> THEN "exit"        \* check_if_valid_ota_image
    ELSE IF ~index[1].valid THEN "raised"         \* ImageIndex.parse_metafile
    ELSE IF index[1].signed_at = <<>> THEN "exit" \* not image_signed
    ELSE IF token = <<>> THEN "exit"              \* index.jwt is no file
    ELSE LET chain == validator(token[1].x5c)     \* get_index_jwt_sign_cert_chain
         IN  IF chain.err # "" THEN "raised"
             ELSE IF ca.given /\ ~ca.is_dir THEN "exit"
             ELSE IF ca.given /\ ~CaStoreVerifies(ca.roots, chain.ee[1], chain.interms)
             THEN "raised"
             ELSE IF ~JwtSignatureValid(token[1], PubKey(chain.ee[1]))
             THEN "raised"                        \* decode_index_jwt_with_verification
             ELSE "verified"

verify_sign_cmd ==
    /\ v_pc = "ready"
    /\ v_result' = VerifySignOutcome(v_layout, v_index, v_jwt, v_ca)
    /\ v_pc' = "done"
    /\ UNCHANGED <<v_layout, v_index, v_jwt, v_ca, v_tampered, non_ver_vars>>

VerifyNext == TamperIndex \/ verify_sign_cmd

\* C14: verification never succeeds when the digest of the local
\* index.json differs from the image_index digest in the claims of
\* index.jwt.
C14_VerifiedImpliesIndexDigestMatches ==
    v_result = "verified" =>
        /\ v_index # <<>> /\ v_jwt # <<>>
        /\ IndexDigest(v_index[1]) = v_jwt[1].claims.image_index

-----------------------------------------------------------------------------
(* pack_artifact: an image directory packed into a ZIP artifact            *)

\* pack_artifact calls made in one behaviour
MaxPacks == 2
\* permission changes made to the source tree in one behaviour
MaxChmods == 1

IMAGE_INDEX_FNAME == "index.json"
INDEX_JWT_FNAME == "index.jwt"
DEFAULT_TIMESTAMP == <<2009, 1, 1, 0, 0, 0>>
FILE_PERMISSION == Mode644
DIR_PERMISSION == Mode755
Mode600 == {"ur", "uw"}

\* the image root, and the directories that may be below it
PackRoot == "."
TopDirs == {"blobs", "extra"}
\* the child directories of a directory, when they exist
ChildDirs(d) == IF d = "blobs" THEN {"blobs/sha256"} ELSE {}

\* str comparison of python: the place of each name in lexicographic order
NameRank(name) ==
    CASE name = "aa" -> 1 [] name = "bb" -> 2
      [] name = "blobs" -> 3 [] name = "blobs/sha256" -> 4
      [] name = "extra" -> 5
      [] name = IMAGE_INDEX_FNAME -> 6 [] name = INDEX_JWT_FNAME -> 7
      [] name = "oci-layout" -> 8 [] name = "x" -> 9

\* sorted(names)
RECURSIVE sorted(_)
sorted(names) ==
    IF names = {} THEN <<>>
    ELSE LET first == CHOOSE n \in names : \A o \in names : NameRank(n) <= NameRank(o)
         IN  <<first>> \o sorted(names \ {first})

PackPermutations(S) ==
    {p \in [1..Cardinality(S) -> S] : \A i, j \in 1..Cardinality(S) : p[i] = p[j] => i = j}

PackIdle ==
    /\ k_pc = "idle" /\ k_files = {} /\ k_dirs = {} /\ k_scan = <<>>
    /\ k_out = <<>> /\ k_chmods = 0

\* an image directory as the builder wrote it (files 0644, directories
\* 0755), signed or not, with or without a second directory at top level;
\* k_scan is the order in which the file system lists the top directories
PackStart ==
    /\ k_pc = "ready"
    /\ \E signed, layout, bb, extra \in BOOLEAN :
          LET names == [d \in {PackRoot, "blobs/sha256", "extra"} |->
                          CASE d = PackRoot ->
                                   {IMAGE_INDEX_FNAME}
                                   \cup (IF signed THEN {INDEX_JWT_FNAME} ELSE {})
                                   \cup (IF layout THEN {"oci-layout"} ELSE {})
                            [] d = "blobs/sha256" -> {"aa"} \cup (IF bb THEN {"bb"} ELSE {})
                            [] d = "extra" -> IF extra THEN {"x"} ELSE {}]
              top == {"blobs"} \cup (IF extra THEN {"extra"} ELSE {})
          IN  /\ k_files = UNION {{[dir |-> d, name |-> n, data |-> n, mode |-> Mode644] :
                                       n \in names[d]} : d \in DOMAIN names}
              /\ k_dirs = {[path |-> d, mode |-> Mode755] :
                               d \in top \cup {"blobs/sha256"}}
              /\ k_scan \in PackPermutations(top)
    /\ k_out = <<>>
    /\ k_chmods = 0

\* ---- the ZIP members
\* ZipInfo.from_file: external_attr is the st_mode of the source
\* add_file: external_attr |= FILE_PERMISSION << 16
FileMember(f) ==
    [arcname |-> <<f.dir, f.name>>, is_dir |-> FALSE, data |-> f.data,
     date_time |-> DEFAULT_TIMESTAMP, perm |-> f.mode \cup FILE_PERMISSION]

\* add_dir: ZipFile.mkdir(zipinfo, mode) ignores mode when given a ZipInfo
DirMember(d) ==
    [arcname |-> <<d.path, "">>, is_dir |-> TRUE, data |-> "",
     date_time |-> DEFAULT_TIMESTAMP, perm |-> d.mode]

FileAt(files, dir, name) == CHOOSE f \in files : f.dir = dir /\ f.name = name
HasFile(files, dir, name) == \E f \in files : f.dir = dir /\ f.name = name
DirAt(dirs, path) == CHOOSE d \in dirs : d.path = path
NamesIn(files, dir) == {f.name : f \in {g \in files : g.dir = dir}}

\* add_file for each name of a sorted listing
RECURSIVE AddFiles(_, _, _)
AddFiles(files, dir, names) ==
    IF names = <<>> THEN <<>>
    ELSE <<FileMember(FileAt(files, dir, Head(names)))>>
         \o AddFiles(files, dir, Tail(names))

\* os.walk below the root, top-down: each directory, then its children
\* (no directory below the top level has two children to order)
RECURSIVE WalkBelow(_, _)
WalkBelow(dirs, todo) ==
    IF todo = <<>> THEN <<>>
    ELSE LET d == Head(todo)
             kids == sorted({c \in ChildDirs(d) : \E e \in dirs : e.path = c})
         IN  <<d>> \o WalkBelow(dirs, kids) \o WalkBelow(dirs, Tail(todo))

\* the else branch of the loop: add_dir, then the sorted files
RECURSIVE PackDirs(_, _, _)
PackDirs(files, dirs, walk) ==
    IF walk = <<>> THEN <<>>
    ELSE <<DirMember(DirAt(dirs, Head(walk)))>>
         \o AddFiles(files, Head(walk), sorted(NamesIn(files, Head(walk))))
         \o PackDirs(files, dirs, Tail(walk))

\* pack_artifact(_image_root, _output): ok is FALSE when it raised, members
\* is what the ZipFile at _output holds when the with block is left
PackOutcome(files, dirs, scan) ==
    IF ~HasFile(files, PackRoot, IMAGE_INDEX_FNAME)
    THEN [ok |-> FALSE, members |-> <<>>]
    ELSE IF ~HasFile(files, PackRoot, INDEX_JWT_FNAME)
    THEN [ok |-> FALSE,
          members |-> <<FileMember(FileAt(files, PackRoot, IMAGE_INDEX_FNAME))>>]
    ELSE [ok |-> TRUE,
          members |->
              AddFiles(files, PackRoot, <<IMAGE_INDEX_FNAME, INDEX_JWT_FNAME>>)
              \o AddFiles(files, PackRoot,
                          sorted(NamesIn(files, PackRoot)
                                 \ {IMAGE_INDEX_FNAME, INDEX_JWT_FNAME}))
              \o PackDirs(files, dirs, WalkBelow(dirs, scan))]

pack_artifact ==
    /\ k_pc = "ready"
    /\ Len(k_out) < MaxPacks
    /\ k_out' = Append(k_out, PackOutcome(k_files, k_dirs, k_scan))
    /\ UNCHANGED <<k_pc, k_files, k_dirs, k_scan, k_chmods, non_pack_vars>>

\* chmod of one file of the source tree: names and contents stay
ChmodFile ==
    /\ k_pc = "ready" /\ k_chmods < MaxChmods
    /\ \E f \in k_files : \E mode \in {Mode600, Mode644, Mode755} \ {f.mode} :
          k_files' = (k_files \ {f}) \cup {[f EXCEPT !.mode = mode]}
    /\ k_chmods' = k_chmods + 1
    /\ UNCHANGED <<k_pc, k_dirs, k_scan, k_out, non_pack_vars>>

\* chmod of one directory of the source tree
ChmodDir ==
    /\ k_pc = "ready" /\ k_chmods < MaxChmods
    /\ \E d \in k_dirs :
          k_dirs' = (k_dirs \ {d}) \cup {[d EXCEPT !.mode = Mode755 \ {"gx", "ox"}]}
    /\ k_chmods' = k_chmods + 1
    /\ UNCHANGED <<k_pc, k_files, k_scan, k_out, non_pack_vars>>

PackNext == pack_artifact \/ ChmodFile \/ ChmodDir

\* C16: two packs of an image directory whose file names and contents are
\* the same (only permission bits may have changed in between) are
\* byte-identical.
C16_PacksIdentical ==
    (Len(k_out) = 2 /\ k_out[1].ok /\ k_out[2].ok) => k_out[1] = k_out[2]

\* ---- the documented member order
RECURSIVE DocDirNames(_, _, _)
DocDirNames(files, dirs, todo) ==
    IF todo = <<>> THEN <<>>
    ELSE LET d == Head(todo)
             kids == sorted({c \in ChildDirs(d) : \E e \in dirs : e.path = c})
             own == sorted(NamesIn(files, d))
         IN  <<<<d, "">>>> \o [i \in 1..Len(own) |-> <<d, own[i]>>]
             \o DocDirNames(files, dirs, kids)
             \o DocDirNames(files, dirs, Tail(todo))
DocMemberNames(files, dirs) ==
    LET rest == sorted(NamesIn(files, PackRoot) \ {IMAGE_INDEX_FNAME, INDEX_JWT_FNAME})
        top == sorted({d.path : d \in dirs} \cap TopDirs)
    IN  <<<<PackRoot, IMAGE_INDEX_FNAME>>>>
        \o (IF HasFile(files, PackRoot, INDEX_JWT_FNAME)
            THEN <<<<PackRoot, INDEX_JWT_FNAME>>>> ELSE <<>>)
        \o [i \in 1..Len(rest) |-> <<PackRoot, rest[i]>>]
        \o DocDirNames(files, dirs, top)

\* C17: in every artifact pack_artifact produced, index.json is first,
\* index.jwt second when the image is signed and absent when it is not,
\* then the other top-level files in lexicographic order, then the
\* subdirectories with their contents in lexicographic order.
C17_MembersInDocumentedOrder ==
    \A i \in 1..Len(k_out) :
        k_out[i].ok =>
            [j \in 1..Len(k_out[i].members) |-> k_out[i].members[j].arcname]
                = DocMemberNames(k_files, k_dirs)

-----------------------------------------------------------------------------
(* ResumeOTADownloadHelper.check_download_dir                              *)

\* entries in the download dir when the scan starts
MaxEntries == 3
\* max_concurrent
MaxConcurrent == 1

\* the resource table: the digests and the resource_ids it holds
TableDigests == {1, 2}
TableResourceIds == {1, 2}

\* a file name, by what the code reads of it: whether it starts with "tmp",
\* whether it has 64 characters or more, the digest its first 64 characters
\* spell in hex (0 when they are not hex), and the characters after the
\* 65th, "" when there are none
Name(tmp, long, hex, rest) == [tmp |-> tmp, long |-> long, hex |-> hex, rest |-> rest]
\* an entry: its kind, its name, the digest its bytes hash to (0: of no resource)
DirEntry(kind, name, data) == [kind |-> kind, name |-> name, data |-> data]

\* int(s): <<>> when it raises ValueError
IntOf(s) ==
    CASE s = "1" -> <<1>> [] s = "2" -> <<2>> [] s = "9" -> <<9>> [] OTHER -> <<>>

DownloadEntries ==
    {DirEntry("file", Name(FALSE, TRUE, 1, ""), 1),      \* a complete blob
     DirEntry("file", Name(FALSE, TRUE, 2, ""), 0),      \* a partial blob
     DirEntry("file", Name(FALSE, TRUE, 3, ""), 3),      \* no such digest in the table
     DirEntry("file", Name(FALSE, TRUE, 1, "1"), 1),     \* a complete slice for row 1
     DirEntry("file", Name(FALSE, TRUE, 1, "9"), 1),     \* a slice for a row that is gone
     DirEntry("file", Name(FALSE, TRUE, 2, "zz"), 2),    \* suffix is no resource_id
     DirEntry("file", Name(FALSE, TRUE, 2, "1"), 0),     \* a partial slice
     DirEntry("file", Name(TRUE, FALSE, 0, ""), 1),      \* tmp_fname()
     DirEntry("file", Name(TRUE, TRUE, 0, ""), 1),       \* a long name starting with tmp
     DirEntry("file", Name(FALSE, FALSE, 0, ""), 1),     \* a short name
     DirEntry("file", Name(FALSE, TRUE, 0, ""), 1),      \* 64 characters, not hex
     DirEntry("dir", Name(FALSE, TRUE, 2, "2"), 2),      \* a directory
     DirEntry("symlink", Name(FALSE, TRUE, 1, "2"), 1)}  \* a symlink to a good file

\* the first test of the loop body: the entry is removed without a check
NotACandidate(e) ==
    \/ e.kind # "file"
    \/ ~e.name.long
    \/ e.name.tmp

\* bytes.fromhex(_digest_hex) raises
FromHexFails(e) == e.name.hex = 0

SlicedTargetMissingNever(e) == FALSE

\* _sliced_target_rsid names no row (or int() of it raises)
SlicedTargetMissing(e) ==
    /\ e.name.rest # ""
    /\ \/ IntOf(e.name.rest) = <<>>
       \/ IntOf(e.name.rest)[1] \notin TableResourceIds

\* _check_one_resource_at_thread removes the file
CheckRemoves(e) ==
    \/ SlicedTargetMissing(e)
    \/ e.name.hex \notin TableDigests
    \/ e.data # e.name.hex

DownloadIdle ==
    /\ q_pc = "idle" /\ q_listing = {} /\ q_dir = {} /\ q_todo = {}
    /\ q_queued = {} /\ q_se = 0 /\ q_count = 0

DownloadStart ==
    /\ q_pc = "scan"
    /\ q_listing \in {s \in SUBSET DownloadEntries : Cardinality(s) <= MaxEntries}
    /\ q_dir = q_listing
    /\ q_todo = q_listing
    /\ q_queued = {}
    /\ q_se = MaxConcurrent
    /\ q_count = 0

\* one round of `for entry in it` that ends in remove_file and continue
ScanRemoves ==
    /\ q_pc = "scan"
    /\ \E e \in q_todo :
          /\ NotACandidate(e) \/ FromHexFails(e)
          /\ q_dir' = q_dir \ {e}
          /\ q_todo' = q_todo \ {e}
    /\ UNCHANGED <<q_pc, q_listing, q_queued, q_se, q_count, non_dl_vars>>

\* one round that acquires the semaphore and submits the check
ScanSubmits ==
    /\ q_pc = "scan"
    /\ \E e \in q_todo :
          /\ ~NotACandidate(e) /\ ~FromHexFails(e)
          /\ q_se > 0
          /\ q_se' = q_se - 1
          /\ q_count' = q_count + 1
          /\ q_queued' = q_queued \cup {e}
          /\ q_todo' = q_todo \ {e}
    /\ UNCHANGED <<q_pc, q_listing, q_dir, non_dl_vars>>

\* the iterator is exhausted: the with block is left
ScanEnds ==
    /\ q_pc = "scan" /\ q_todo = {}
    /\ q_pc' = "join"
    /\ UNCHANGED <<q_listing, q_dir, q_todo, q_queued, q_se, q_count, non_dl_vars>>

_check_one_resource_at_thread(e) ==
    /\ e \in q_queued
    /\ q_dir' = IF CheckRemoves(e) THEN q_dir \ {e} ELSE q_dir
    /\ q_queued' = q_queued \ {e}
    /\ q_se' = q_se + 1
    /\ UNCHANGED <<q_pc, q_listing, q_todo, q_count, non_dl_vars>>

\* ThreadPoolExecutor.__exit__: every submitted check has run
DownloadPoolExit ==
    /\ q_pc = "join" /\ q_queued = {}
    /\ q_pc' = "done"
    /\ UNCHANGED <<q_listing, q_dir, q_todo, q_queued, q_se, q_count, non_dl_vars>>

DownloadNext ==
    \/ ScanRemoves
    \/ ScanSubmits
    \/ ScanEnds
    \/ \E e \in DownloadEntries : _check_one_resource_at_thread(e)
    \/ DownloadPoolExit

\* ---- what the documentation says is retained
\* the resource_id suffix as it is written into a slice's name
RsidSuffix(rsid) == CASE rsid = 1 -> "1" [] rsid = 2 -> "2"
DocRetained(e) ==
    /\ e.kind = "file"
    /\ ~e.name.tmp
    /\ e.name.long /\ e.name.hex \in TableDigests
    /\ e.data = e.name.hex
    /\ e.name.rest # "" => \E r \in TableResourceIds : e.name.rest = RsidSuffix(r)

-----------------------------------------------------------------------------
(* verify-resources: FileDigestHelper.digest_files                         *)

\* paths the run is given to check
MaxPaths == 3
\* --worker-threads
WorkerThreads == 2

\* what a path of the resource dir holds: a blob whose bytes hash to its
\* name, a blob whose bytes do not, a path that cannot be opened, a file
\* whose name is no sha256 hex digest
PathKinds == {"good", "broken", "unreadable", "not_a_blob"}

RECURSIVE SeqsUpTo(_, _)
SeqsUpTo(S, n) ==
    IF n = 0 THEN {<<>>}
    ELSE SeqsUpTo(S, n - 1)
         \cup {Append(s, x) : s \in {t \in SeqsUpTo(S, n - 1) : Len(t) = n - 1}, x \in S}

VerifyResIdle ==
    /\ w_pc = "idle" /\ w_blobs = <<>> /\ w_idx = 0 /\ w_se = 0
    /\ w_should_exit = FALSE /\ w_last_failed = <<>>
    /\ w_task = <<>> /\ w_verdict = <<>>

\* FileDigestHelper(resource_dir, worker_threads=...), digest_files called
VerifyResStart ==
    /\ w_pc = "loop"
    /\ w_blobs \in SeqsUpTo(PathKinds, MaxPaths)
    /\ w_idx = 0
    /\ w_se = WorkerThreads * 6
    /\ w_should_exit = FALSE
    /\ w_last_failed = <<>>
    /\ w_task = [i \in 1..Len(w_blobs) |-> "none"]
    /\ w_verdict = [i \in 1..Len(w_blobs) |-> "none"]

VrUnchanged(changed) ==
    /\ ("pc" \in changed \/ UNCHANGED w_pc)
    /\ ("idx" \in changed \/ UNCHANGED w_idx)
    /\ ("se" \in changed \/ UNCHANGED w_se)
    /\ ("should_exit" \in changed \/ UNCHANGED w_should_exit)
    /\ ("last_failed" \in changed \/ UNCHANGED w_last_failed)
    /\ ("task" \in changed \/ UNCHANGED w_task)
    /\ ("verdict" \in changed \/ UNCHANGED w_verdict)
    /\ UNCHANGED <<w_blobs, non_vr_vars>>

ShouldExitIsSet == w_should_exit

\* the loop takes the next path and finds _should_exit set
LoopExits ==
    /\ w_pc = "loop" /\ w_idx < Len(w_blobs)
    /\ ShouldExitIsSet
    /\ w_idx' = w_idx + 1
    /\ w_pc' = "exiting"
    /\ VrUnchanged({"pc", "idx"})

\* the loop takes the next path: its name is no digest
LoopSkips ==
    /\ w_pc = "loop" /\ w_idx < Len(w_blobs)
    /\ ~ShouldExitIsSet
    /\ w_blobs[w_idx + 1] = "not_a_blob"
    /\ w_idx' = w_idx + 1
    /\ VrUnchanged({"idx"})

\* the loop takes the next path, acquires the semaphore and submits its task
LoopSubmits ==
    /\ w_pc = "loop" /\ w_idx < Len(w_blobs)
    /\ ~ShouldExitIsSet
    /\ w_blobs[w_idx + 1] # "not_a_blob"
    /\ w_se > 0
    /\ w_se' = w_se - 1
    /\ w_idx' = w_idx + 1
    /\ w_task' = [w_task EXCEPT ![w_idx + 1] = "queued"]
    /\ VrUnchanged({"idx", "se", "task"})

\* _blobs_gen is exhausted
LoopEnds ==
    /\ w_pc = "loop" /\ w_idx = Len(w_blobs)
    /\ w_pc' = "join"
    /\ VrUnchanged({"pc"})

DigestsRunning == {i \in 1..Len(w_task) : w_task[i] = "running"}

\* a pool thread takes a queued task
FileDigestStarts(i) ==
    /\ i \in 1..Len(w_task) /\ w_task[i] = "queued"
    /\ Cardinality(DigestsRunning) < WorkerThreads
    /\ \A j \in 1..Len(w_task) : w_task[j] = "queued" => i <= j
    /\ w_task' = [w_task EXCEPT ![i] = "running"]
    /\ VrUnchanged({"task"})

\* _file_digest_at_thread, from the open to the finally
FileDigestEnds(i) ==
    /\ i \in 1..Len(w_task) /\ w_task[i] = "running"
    /\ \/ /\ w_blobs[i] = "unreadable"              \* except Exception
          /\ w_should_exit' = TRUE
          /\ w_last_failed' = <<i>>
          /\ w_verdict' = [w_verdict EXCEPT ![i] = "error"]
       \/ /\ w_blobs[i] # "unreadable"
          /\ w_should_exit                          \* return None in the read loop
          /\ w_verdict' = [w_verdict EXCEPT ![i] = "aborted"]
          /\ UNCHANGED <<w_should_exit, w_last_failed>>
       \/ /\ w_blobs[i] = "broken"                  \* hexdigest() != expected_digest
          /\ w_last_failed' = <<i>>
          /\ w_verdict' = [w_verdict EXCEPT ![i] = "mismatch"]
          /\ UNCHANGED w_should_exit
       \/ /\ w_blobs[i] = "good"
          /\ w_verdict' = [w_verdict EXCEPT ![i] = "ok"]
          /\ UNCHANGED <<w_should_exit, w_last_failed>>
    /\ w_task' = [w_task EXCEPT ![i] = "done"]
    /\ w_se' = w_se + 1
    /\ VrUnchanged({"task", "se", "should_exit", "last_failed", "verdict"})

VerifyResDrained == \A i \in 1..Len(w_task) : w_task[i] \in {"none", "done"}

\* the with block is left: the pool waits for its tasks, then the run
\* prints the total and returns, or SystemExit(1) goes on
VerifyResPoolExit ==
    /\ w_pc \in {"join", "exiting"}
    /\ VerifyResDrained
    /\ w_pc' = IF w_pc = "exiting" THEN "exit1" ELSE "returned"
    /\ VrUnchanged({"pc"})

VerifyResNext ==
    \/ LoopExits
    \/ LoopSkips
    \/ LoopSubmits
    \/ LoopEnds
    \/ \E i \in 1..MaxPaths : FileDigestStarts(i)
    \/ \E i \in 1..MaxPaths : FileDigestEnds(i)
    \/ VerifyResPoolExit

\* C19: a run in which a checked blob's sha256 differs from its expected
\* digest never ends as verified: it ends with a non-zero exit.
C19_MismatchFailsRun ==
    w_pc = "returned" => \A i \in 1..Len(w_verdict) : w_verdict[i] # "mismatch"

-----------------------------------------------------------------------------
(* OCIDescriptor.add_contents_to_resource_dir / add_file_to_resource_dir   *)

\* concurrent puts of the same content
NumPutters == 2
\* write calls one put needs for the content
NumChunks == 2

Putters == 1..NumPutters
\* the content put: every putter puts the same bytes, so the same digest
PutContent == [i \in 1..NumChunks |-> i]

\* f.write(chunk) at the writer's own offset of a file that may have been
\* truncated below it in between (the hole reads as 0)
WriteAt(chunks, off, chunk) ==
    [i \in 1..(IF off + 1 > Len(chunks) THEN off + 1 ELSE Len(chunks)) |->
        IF i = off + 1 THEN chunk
        ELSE IF i <= Len(chunks) THEN chunks[i] ELSE 0]

PutIdle ==
    /\ o_pc = <<>> /\ o_kind = <<>> /\ o_blob = <<>> /\ o_tmp = <<>> /\ o_off = <<>>
    /\ o_seen = {}

PutStart ==
    /\ o_pc = [w \in Putters |-> "start"]
    /\ o_kind \in [Putters -> {"bytes", "file"}]
    /\ o_blob = <<>>
    /\ o_tmp = [w \in Putters |-> <<>>]
    /\ o_off = [w \in Putters |-> 0]
    /\ o_seen = {}

\* add_contents_to_resource_dir: Path.write_bytes opens resource_dir/<digest>
\* with mode "wb", creating it or truncating it
BytesOpen(w) ==
    /\ o_pc[w] = "start" /\ o_kind[w] = "bytes"
    /\ o_blob' = <<<<>>>>
    /\ o_pc' = [o_pc EXCEPT ![w] = "opened"]
    /\ UNCHANGED <<o_kind, o_tmp, o_off, o_seen, non_put_vars>>

\* Path.write_bytes: the data goes into the open file
BytesWrite(w) ==
    /\ o_pc[w] = "opened" /\ o_kind[w] = "bytes"
    /\ o_off[w] < NumChunks
    /\ o_blob' = <<WriteAt(o_blob[1], o_off[w], PutContent[o_off[w] + 1])>>
    /\ o_off' = [o_off EXCEPT ![w] = @ + 1]
    /\ o_pc' = [o_pc EXCEPT ![w] = IF o_off[w] + 1 = NumChunks THEN "done" ELSE "opened"]
    /\ UNCHANGED <<o_kind, o_tmp, o_seen, non_put_vars>>

\* add_file_to_resource_dir: open(_tmp_fpath, "wb")
FileOpenTmp(w) ==
    /\ o_pc[w] = "start" /\ o_kind[w] = "file"
    /\ o_tmp' = [o_tmp EXCEPT ![w] = <<<<>>>>]
    /\ o_pc' = [o_pc EXCEPT ![w] = "opened"]
    /\ UNCHANGED <<o_kind, o_blob, o_off, o_seen, non_put_vars>>

\* _dst.write(data) of one chunk
FileWriteTmp(w) ==
    /\ o_pc[w] = "opened" /\ o_kind[w] = "file"
    /\ o_off[w] < NumChunks
    /\ o_tmp' = [o_tmp EXCEPT ![w] = <<WriteAt(o_tmp[w][1], o_off[w], PutContent[o_off[w] + 1])>>]
    /\ o_off' = [o_off EXCEPT ![w] = @ + 1]
    /\ o_pc' = [o_pc EXCEPT ![w] = IF o_off[w] + 1 = NumChunks THEN "written" ELSE "opened"]
    /\ UNCHANGED <<o_kind, o_blob, o_seen, non_put_vars>>

\* os.replace(_tmp_fpath, resource_dir / _digest), then the finally
FileReplace(w) ==
    /\ o_pc[w] = "written" /\ o_kind[w] = "file"
    /\ o_blob' = o_tmp[w]
    /\ o_tmp' = [o_tmp EXCEPT ![w] = <<>>]
    /\ o_pc' = [o_pc EXCEPT ![w] = "done"]
    /\ UNCHANGED <<o_kind, o_off, o_seen, non_put_vars>>

\* a concurrent reader opens resource_dir/<digest> and reads it to the end
ReadBlob ==
    /\ o_pc # <<>> /\ o_blob # <<>>
    /\ o_seen' = o_seen \cup {o_blob[1]}
    /\ UNCHANGED <<o_pc, o_kind, o_blob, o_tmp, o_off, non_put_vars>>

PutNext ==
    \/ \E w \in Putters :
          \/ BytesOpen(w)
          \/ BytesWrite(w)
          \/ FileOpenTmp(w)
          \/ FileWriteTmp(w)
          \/ FileReplace(w)
    \/ ReadBlob

\* C20: whatever puts run, the blob path resource_dir/<digest> is absent
\* or holds the complete content, and a concurrent reader has read nothing
\* but the complete content.
C20_BlobNeverPartial ==
    /\ o_pc # <<>> => (o_blob = <<>> \/ o_blob = <<PutContent>>)
    /\ \A content \in o_seen : content = PutContent

-----------------------------------------------------------------------------
(* FileTableDBHelper.iter_common_regular_entries_by_digest                 *)

\* regular paths of the base file table
MaxBasePaths == 4
\* the largest max_num_of_entries_per_digest passed by a caller
MaxEntriesArg == 2

\* digests are numbers, ordered as SQLite orders the blobs; 0 is the digest
\* of the empty file
EMPTY_FILE_SHA256_BYTE == 0
CommonDigests == 0..2
BasePaths == 1..MaxBasePaths

CommonIdle ==
    /\ c_pc = "idle" /\ c_base = <<>> /\ c_target = <<>> /\ c_max = 0
    /\ c_left = {} /\ c_seen = <<>> /\ c_hash = <<>> /\ c_cur = <<>> /\ c_out = <<>>

\* a base table and a target table, the helper constructed on the target
\* one; the empty file is a resource of every table (digest is UNIQUE)
CommonStart ==
    /\ c_pc = "ready"
    /\ c_base \in [BasePaths -> CommonDigests]
    /\ c_target \in [CommonDigests -> {"absent", "blob", "inlined"}]
    /\ c_target[EMPTY_FILE_SHA256_BYTE] = "blob"
    /\ c_max \in 1..MaxEntriesArg
    /\ c_left = {} /\ c_seen = <<>> /\ c_hash = <<>> /\ c_cur = <<>> /\ c_out = <<>>

\* ITER_COMMON_DIGEST: base.ft_regular JOIN base.ft_resource JOIN target
\* ft_resource ON digest, WHERE digest != EMPTY_FILE_SHA256_BYTE AND
\* target_rs.contents IS NULL
ITER_COMMON_DIGEST(base, target) ==
    {[path |-> p, digest |-> base[p]] :
        p \in {q \in DOMAIN base : /\ base[q] # EMPTY_FILE_SHA256_BYTE
                                   /\ target[base[q]] = "blob"}}

\* ORDER BY digest: the rows the cursor may deliver next
NextRows(left) == {r \in left : \A o \in left : r.digest <= o.digest}

\* len(_cur) <= max_num_of_entries_per_digest
HasRoom(cur, max) == Len(cur) <= max

\* ATTACH DATABASE and the execute of the statement
Execute ==
    /\ c_pc = "ready"
    /\ c_pc' = "loop"
    /\ c_left' = ITER_COMMON_DIGEST(c_base, c_target)
    /\ UNCHANGED <<c_base, c_target, c_max, c_seen, c_hash, c_cur, c_out, non_com_vars>>

\* the connection raises (the base table cannot be attached, the statement
\* is rejected, the database is locked): the generator ends with the error
ExecuteRaises ==
    /\ c_pc = "ready"
    /\ c_pc' = "raised"
    /\ UNCHANGED <<c_base, c_target, c_max, c_left, c_seen, c_hash, c_cur, c_out,
                   non_com_vars>>

\* one round of the for loop over the rows
LoopRound ==
    /\ c_pc = "loop"
    /\ \E entry \in NextRows(c_left) :
          /\ c_left' = c_left \ {entry}
          /\ c_seen' = Append(c_seen, entry)
          /\ IF <<entry.digest>> = c_hash
             THEN /\ c_cur' = IF HasRoom(c_cur, c_max) THEN Append(c_cur, entry.path)
                              ELSE c_cur
                  /\ UNCHANGED <<c_hash, c_out>>
             ELSE /\ c_out' = IF c_cur # <<>>
                              THEN Append(c_out, [digest |-> c_hash[1], paths |-> c_cur])
                              ELSE c_out
                  /\ c_hash' = <<entry.digest>>
                  /\ c_cur' = <<entry.path>>
    /\ UNCHANGED <<c_pc, c_base, c_target, c_max, non_com_vars>>

\* the rows are exhausted: if _cur: yield _hash, _cur
LoopEnd ==
    /\ c_pc = "loop"
    /\ c_left = {}
    /\ c_out' = IF c_cur # <<>>
                THEN Append(c_out, [digest |-> c_hash[1], paths |-> c_cur])
                ELSE c_out
    /\ c_pc' = "done"
    /\ UNCHANGED <<c_base, c_target, c_max, c_left, c_seen, c_hash, c_cur, non_com_vars>>

CommonNext == Execute \/ ExecuteRaises \/ LoopRound \/ LoopEnd

\* the paths of digest d among the rows delivered, in query order
RECURSIVE PathsInQueryOrder(_, _)
PathsInQueryOrder(seen, d) ==
    IF seen = <<>> THEN <<>>
    ELSE (IF Head(seen).digest = d THEN <<Head(seen).path>> ELSE <<>>)
         \o PathsInQueryOrder(Tail(seen), d)

\* the first n elements of a sequence, all of it when it is shorter
FirstN(s, n) == SubSeq(s, 1, IF n <= Len(s) THEN n ELSE Len(s))

YieldsOf(d) == {i \in 1..Len(c_out) : c_out[i].digest = d}

\* C30: when the generator has ended normally, each digest of the rows of
\* the query was yielded exactly once, with at most
\* max_num_of_entries_per_digest paths, the first ones in query order, and
\* no other digest was yielded.
C30_AtMostMaxPathsPerDigest ==
    c_pc = "done" =>
        /\ \A i \in 1..Len(c_out) : \E r \in ITER_COMMON_DIGEST(c_base, c_target) :
              r.digest = c_out[i].digest
        /\ \A r \in ITER_COMMON_DIGEST(c_base, c_target) :
              /\ Cardinality(YieldsOf(r.digest)) = 1
              /\ \A i \in YieldsOf(r.digest) :
                    /\ Len(c_out[i].paths) <= c_max
                    /\ c_out[i].paths =
                          FirstN(PathsInQueryOrder(c_seen, r.digest), c_max)

-----------------------------------------------------------------------------
(* Specifications                                                          *)

IndexInit == IndexIdle /\ BundleIdle /\ PrepIdle /\ DeployIdle /\ ResIdle /\ ChainIdle /\ VerifyIdle /\ PackIdle /\ DownloadIdle /\ VerifyResIdle /\ PutIdle /\ CommonIdle

BundleInit == BundleStart /\ IndexIdle /\ PrepIdle /\ DeployIdle /\ ResIdle /\ ChainIdle /\ VerifyIdle /\ PackIdle /\ DownloadIdle /\ VerifyResIdle /\ PutIdle /\ CommonIdle

PrepInit == PrepStart /\ IndexIdle /\ BundleIdle /\ DeployIdle /\ ResIdle /\ ChainIdle /\ VerifyIdle /\ PackIdle /\ DownloadIdle /\ VerifyResIdle /\ PutIdle /\ CommonIdle

DeployInit == DeployStart /\ IndexIdle /\ BundleIdle /\ PrepIdle /\ ResIdle /\ ChainIdle /\ VerifyIdle /\ PackIdle /\ DownloadIdle /\ VerifyResIdle /\ PutIdle /\ CommonIdle

ResInit == ResStart /\ IndexIdle /\ BundleIdle /\ PrepIdle /\ DeployIdle /\ ChainIdle /\ VerifyIdle /\ PackIdle /\ DownloadIdle /\ VerifyResIdle /\ PutIdle /\ CommonIdle

ChainInit == ChainStart /\ IndexIdle /\ BundleIdle /\ PrepIdle /\ DeployIdle /\ ResIdle /\ VerifyIdle /\ PackIdle /\ DownloadIdle /\ VerifyResIdle /\ PutIdle /\ CommonIdle

VerifyInit == VerifyStart /\ IndexIdle /\ BundleIdle /\ PrepIdle /\ DeployIdle /\ ResIdle /\ ChainIdle /\ PackIdle /\ DownloadIdle /\ VerifyResIdle /\ PutIdle /\ CommonIdle

PackInit == PackStart /\ IndexIdle /\ BundleIdle /\ PrepIdle /\ DeployIdle /\ ResIdle /\ ChainIdle /\ VerifyIdle /\ DownloadIdle /\ VerifyResIdle /\ PutIdle /\ CommonIdle

DownloadInit == DownloadStart /\ IndexIdle /\ BundleIdle /\ PrepIdle /\ DeployIdle /\ ResIdle /\ ChainIdle /\ VerifyIdle /\ PackIdle /\ VerifyResIdle /\ PutIdle /\ CommonIdle

VerifyResInit == VerifyResStart /\ IndexIdle /\ BundleIdle /\ PrepIdle /\ DeployIdle /\ ResIdle /\ ChainIdle /\ VerifyIdle /\ PackIdle /\ DownloadIdle /\ PutIdle /\ CommonIdle

PutInit == PutStart /\ IndexIdle /\ BundleIdle /\ PrepIdle /\ DeployIdle /\ ResIdle /\ ChainIdle /\ VerifyIdle /\ PackIdle /\ DownloadIdle /\ VerifyResIdle /\ CommonIdle

CommonInit == CommonStart /\ IndexIdle /\ BundleIdle /\ PrepIdle /\ DeployIdle /\ ResIdle /\ ChainIdle /\ VerifyIdle /\ PackIdle /\ DownloadIdle /\ VerifyResIdle /\ PutIdle

\* one deploy call of either deployer
PoolsInit == DeployInit \/ ResInit

PoolsNext == DeployNext \/ ResNext

SpecIndex == IndexInit /\ [][IndexNext]_vars

SpecBundle == BundleInit /\ [][BundleNext]_vars

SpecPrepare == PrepInit /\ [][PrepNext]_vars

SpecDeploy == DeployInit /\ [][DeployNext]_vars

SpecResources == ResInit /\ [][ResNext]_vars

SpecChain == ChainInit /\ [][ChainNext]_vars

SpecVerify == VerifyInit /\ [][VerifyNext]_vars

SpecPack == PackInit /\ [][PackNext]_vars

SpecDownload == DownloadInit /\ [][DownloadNext]_vars

SpecVerifyRes == VerifyResInit /\ [][VerifyResNext]_vars

SpecPut == PutInit /\ [][PutNext]_vars

SpecCommon == CommonInit /\ [][CommonNext]_vars

SpecPools == PoolsInit /\ [][PoolsNext]_vars

\* deploy_resources with threads that keep running: a step that can be taken is taken
SpecResourcesLive == ResInit /\ [][ResNext]_vars /\ WF_vars(ResNext)

\* the bundle coordination with callers that prepare again after a failed extraction
RetryInit == BundleInit /\ RetryStart

SpecRetry == RetryInit /\ [][RetryNext]_vars

====
